---------------------------- MODULE Spec2Model ----------------------------
(***************************************************************************)
(* Model of fand: a sensor is sampled through a runtime-built chain of     *)
(* iterator adaptors (src/src/operations/mod.rs), the composed chain is    *)
(* driven by sample_forever (src/src/outputs.rs), and in socket mode the   *)
(* stage messages are broadcast to the connected clients                   *)
(* (src/src/bin/fand.rs).                                                  *)
(*                                                                         *)
(* Numbers.  An f64 is written as a rational [n, d] in lowest terms        *)
(* (d > 0) and is the f64 nearest to that rational; a field ulp, when      *)
(* present, moves it by that many units of the last place.  Every sum,     *)
(* difference, product and quotient of the program (FAdd, FSub, FMul,      *)
(* FDiv) is rounded to the nearest f64, ties to even, as IEEE arithmetic   *)
(* rounds it, for operands of either sign; a sum that cancels to zero      *)
(* while its operands carry rounding errors is outside the integers of     *)
(* TLC and no scenario has one.  The non-finite values are the fractions   *)
(* with d = 0: 1/0 and -1/0 are the infinities and 0/0 is NaN.  The sign   *)
(* of a zero is not modelled.  A u64 is [max, i]: the integer i, or        *)
(* u64::MAX when max is set (it is beyond the integers of TLC).            *)
(* The result of a `u32 as f64` cast is kept as the u32 itself, a pair of  *)
(* 16-bit halves [hi, lo], because TLC's integers are narrower than        *)
(* 32 unsigned bits.  Option<T> is a sequence of length 0 or 1.            *)
(***************************************************************************)
EXTENDS Integers, Naturals, Sequences, FiniteSets, TLC

VARIABLES
    conf,     \* the configuration the process was started with (never changes)
    chain,    \* the composed iterator chain, the sensor, the channel sender side
    outs,     \* the Options the next() calls on the composed chain returned
    crashed,  \* direct driver: a next() call panicked (never set in the process)
    exited,   \* the process has exited
    sched,    \* Pipeline::start before the loop ("Starting"), then sample_forever:
              \* "Running", "InNext", "InPush", "Stopped", "Panicked"
    last,     \* sample_forever: the local `last`
    sink,     \* the output.push() calls: [tick, val, ok, duty, last_zero, args],
              \* oldest first
    hub,      \* the broadcast thread: pc, val, i, to_del
    clients,  \* Arc<Mutex<Vec<UnixStream>>>: the connections, in order
    lock,     \* holder of the clients mutex: "none" or "hub"
    wrote,    \* per connection, the write_all calls on it: [sn, id, ok]
    joined,   \* per connection, the sn of the first message whose broadcast
              \* pass begins after the connection was pushed
    nconn     \* number of connections accepted so far

vars == <<conf, chain, outs, crashed, exited, sched, last, sink, hub, clients, lock, wrote, joined, nconn>>

-----------------------------------------------------------------------------
(* Bounds of the model *)

\* Longest sensor reading sequence of a rate-changing or averaging stage scenario.
MaxSrc == 4
\* Longest sensor reading sequence of a value-by-value stage scenario.
ShortSrc == 2
\* Largest repeat / drop / window count of a stage scenario.
MaxN == 3
\* Number of next() calls the stage harness makes beyond the sensor length.
ExtraPulls == 2
\* Longest sensor reading sequence of a scheduler scenario.
MaxTicks == 3
\* Longest run of one reading in the socket-mode scenarios (SocketReadings).
MonTicks == 2
\* Most client connections the acceptor takes (the scenario of the
\* observers); the other socket-mode scenarios take one fewer.
MaxConns == 3
\* Longest sensor reading sequence of a two-stage chain scenario.
ChainSrc == 3
\* Longest sensor reading sequence of a socket-mode scenario with a fairly
\* scheduled broadcast thread.
FairTicks == 1
\* Longest sensor reading sequence of a scenario of the built-in chain.
DefaultSrc == 2

-----------------------------------------------------------------------------
(* Program constants *)

\* (val * 1000.) as u64 in Clip and AtLeast
Milli == 1000
\* (last * 100.).round() in sample_forever
Centi == 100
\* std::cmp::min(100, sum) in PID
PidMax == 100
\* initial position and target of DampenedOscillator
OscInit == 100
\* the built-in chain of main: window of Average, offset of PID, repeat count
\* of Supersample and number of values Subsample discards
DefaultWindow == 5
DefaultOffset == 30
DefaultRepeat == 100
DefaultSkip == 4
\* one half of a u32
Half == 65536

-----------------------------------------------------------------------------
(* f64 as a rational and an offset in units of the last place *)

RECURSIVE GCD(_, _)
GCD(a, b) == IF b = 0 THEN a ELSE GCD(b, a % b)

Abs(i) == IF i < 0 THEN -i ELSE i

Sign(i) == IF i < 0 THEN -1 ELSE IF i > 0 THEN 1 ELSE 0
NaN == [n |-> 0, d |-> 0]
IsFinite(q) == q.d # 0

Rat(n, d) ==
    IF d = 0 THEN [n |-> Sign(n), d |-> 0]
    ELSE LET s == IF d < 0 THEN -1 ELSE 1
             g == GCD(Abs(n), Abs(d))
         IN  [n |-> (s * n) \div g, d |-> (s * d) \div g]

\* A decimal literal with three fractional digits: Dec(50004) is 50.004.
Dec(m) == Rat(m, Milli)
\* An integer-valued literal.
Num(i) == Rat(i, 1)

\* The exact sum, product and quotient of two rationals: what an f64
\* operation computes before it rounds.  With an operand that is not finite
\* they are the result of the f64 operation itself: inf + inf = inf,
\* inf - inf = 0 * inf = inf / inf = 0 / 0 = NaN, x / 0 = +-inf.
RAdd(a, b) ==
    IF a.d = 0 /\ b.d = 0 THEN (IF a.n = b.n THEN a ELSE NaN)
    ELSE LET g == GCD(a.d, b.d)
         IN  Rat(a.n * (b.d \div g) + b.n * (a.d \div g), (a.d \div g) * b.d)
RMul(a, b) ==
    IF a.d = 0 \/ b.d = 0 THEN Rat(Sign(a.n) * Sign(b.n), 0)
    ELSE LET g == GCD(Abs(a.n), b.d)
             h == GCD(Abs(b.n), a.d)
         IN  Rat((a.n \div g) * (b.n \div h), (a.d \div h) * (b.d \div g))
\* the sign of the divisor goes to the numerator, so that it is kept when the
\* quotient is infinite
RDiv(a, b) ==
    IF a.d = 0 \/ b.d = 0 \/ b.n = 0
    THEN (IF b.n < 0 THEN Rat(-(a.n * b.d), -(a.d * b.n)) ELSE Rat(a.n * b.d, a.d * b.n))
    ELSE RMul(a, [n |-> Sign(b.n) * b.d, d |-> Abs(b.n)])
\* comparisons with NaN are false
IsNaN(q) == q.d = 0 /\ q.n = 0
\* the units of the last place an f64 lies off the f64 nearest to its
\* rational; under a power of two, where the f64 lie twice as close, the
\* units are those of the f64 below it
Ulp(v) == IF "ulp" \in DOMAIN v THEN v.ulp ELSE 0
\* -a on f64
RNeg(a) ==
    IF Ulp(a) = 0 THEN [n |-> -a.n, d |-> a.d]
    ELSE [n |-> -a.n, d |-> a.d, ulp |-> -a.ulp]
RSub(a, b) == RAdd(a, RNeg(b))
\* a < b on f64: two infinities compare by their signs, two f64 of one
\* rational by their last places
RLt(a, b) ==
    /\ ~IsNaN(a)
    /\ ~IsNaN(b)
    /\ IF a.d = 0 /\ b.d = 0 THEN a.n < b.n
       ELSE \/ a.n * b.d < b.n * a.d
            \/ (a.n * b.d = b.n * a.d /\ Ulp(a) < Ulp(b))

\* `as u64` / `as u32` of an integral f64 saturate; only the lower end is in
\* the range of the model.
AsUnsigned(i) == IF i < 0 THEN 0 ELSE i

\* A record [n, d] is the f64 nearest to the rational n/d.  The operators
\* below give, for a finite rational q other than 0, where |q| lies between
\* two neighbouring f64, in units of the last place (the 53rd bit) of q.
RECURSIVE Pow2(_)
Pow2(e) == IF e = 0 THEN 1 ELSE 2 * Pow2(e - 1)
RECURSIVE MulMod(_, _, _)
\* a * b mod d for a, b < d, by doubling where the product is beyond the
\* integers of TLC
MulMod(a, b, d) ==
    IF d < 46341 THEN (a * b) % d
    ELSE IF b = 0 THEN 0
    ELSE (2 * MulMod(a, b \div 2, d) + (b % 2) * a) % d
RECURSIVE PowMod(_, _)
\* 2^e mod d, by repeated squaring
PowMod(e, d) ==
    IF e = 0 THEN 1 % d
    ELSE LET h == PowMod(e \div 2, d)
         IN  MulMod(MulMod(h, h, d), (IF e % 2 = 1 THEN 2 ELSE 1) % d, d)
RECURSIVE ILog2(_)
ILog2(i) == IF i < 2 THEN 0 ELSE 1 + ILog2(i \div 2)
RECURSIVE NegLog2(_, _)
\* the least k with n * 2^k >= d
NegLog2(n, d) == IF n >= d THEN 0 ELSE 1 + NegLog2(2 * n, d)
\* the binary exponent of |q|
Exponent(q) ==
    IF Abs(q.n) >= q.d THEN ILog2(Abs(q.n) \div q.d) ELSE -NegLog2(Abs(q.n), q.d)
\* |q| is a power of two
IsPow2(q) ==
    \/ (q.d = 1 /\ Abs(q.n) = Pow2(ILog2(Abs(q.n))))
    \/ (Abs(q.n) = 1 /\ q.d = Pow2(ILog2(q.d)))
\* where |q| lies between two neighbouring f64: the part of |q| below its
\* 53 bits, in [0, 1), and whether the 53rd bit is set
Split(q) ==
    LET t == MulMod(Abs(q.n) % (2 * q.d), PowMod(52 - Exponent(q), 2 * q.d), 2 * q.d)
    IN  [below |-> Rat(t % q.d, q.d), odd |-> t >= q.d]
\* the integer nearest to the rational f.  A half goes to the side of what
\* the operation has left out of f (tie, a sign) and else to the side that
\* makes the 53 bits even, `odd` telling whether they are odd at 0.
NearestInt(f, odd, tie) ==
    LET lo == IF f.n >= 0 THEN f.n \div f.d ELSE -((-f.n + f.d - 1) \div f.d)
        rem == f.n - lo * f.d
    IN  IF 2 * rem < f.d THEN lo
        ELSE IF 2 * rem > f.d THEN lo + 1
        ELSE IF tie # 0 THEN (IF tie > 0 THEN lo + 1 ELSE lo)
        ELSE IF odd # (lo % 2 = 1) THEN lo + 1 ELSE lo
\* the f64 nearest to a rational of sign s, less the rational
Residual(s, at) == RMul(Num(s), RSub(Num(NearestInt(at.below, at.odd, 0)), at.below))
\* the offset of an f64 in units of the last place of its rational
UlpUnits(v) ==
    IF IsPow2(v) /\ Sign(v.n) * Ulp(v) < 0 THEN Rat(Ulp(v), 2) ELSE Num(Ulp(v))
\* the f64 v is its rational exactly: an integer, or a fraction of a power
\* of two (the integers of TLC have fewer than 53 bits)
IsExact(v) == Ulp(v) = 0 /\ (v.d = 1 \/ v.d = Pow2(ILog2(v.d)))
\* the f64 v less its rational, in units of the last place of the rational
Err(v) ==
    IF IsExact(v) THEN Num(0)
    ELSE RAdd(UlpUnits(v), Residual(Sign(v.n), Split(v)))
\* the f64 k units of the last place off the f64 nearest to q
WithUlp(q, k) ==
    IF k = 0 THEN [n |-> q.n, d |-> q.d] ELSE [n |-> q.n, d |-> q.d, ulp |-> k]
\* the units from the f64 nearest to |q| to the f64 nearest to |q| + x units;
\* from a power of two downwards the f64 lie twice as close
UlpsTo(pow2, at, x, tie) ==
    IF pow2 /\ (x.n < 0 \/ (x.n = 0 /\ tie < 0))
    THEN NearestInt(RAdd(x, x), FALSE, tie)
    ELSE NearestInt(RAdd(at.below, x), at.odd, tie) - NearestInt(at.below, at.odd, 0)
\* the f64 nearest to q + x units of the last place of q
Nearest(q, x, tie) ==
    IF x.n = 0 /\ tie = 0 THEN q
    ELSE WithUlp(q, Sign(q.n) * UlpsTo(IsPow2(q), Split(q), RMul(Num(Sign(q.n)), x),
                                       Sign(q.n) * tie))
\* e * 2^k
Scaled(e, k) ==
    IF e.n = 0 THEN e
    ELSE IF k >= 0 THEN RMul(e, Num(Pow2(k))) ELSE RDiv(e, Num(Pow2(-k)))
\* the error e of the f64 v in units of the last place of q
ErrIn(e, v, q) == Scaled(e, Exponent(v) - Exponent(q))
\* the error e of the f64 v relative to v
RelErr(e, v) == RDiv(Scaled(e, Exponent(v)), v)
\* The f64 operations on finite operands other than 0: q is the exact
\* result on the rationals of a and b, ea and eb are the errors of a and b.
\* The exact result on the f64 is q and what the errors add to it, and the
\* f64 nearest to that is the result: the f64 nearest to q when a and b are
\* their rationals exactly.
AddRounded(a, b, ea, eb, q) ==
    IF q.n = 0 THEN Scaled(RAdd(ea, eb), Exponent(a) - 52)
    ELSE Nearest(q, RAdd(ErrIn(ea, a, q), ErrIn(eb, b, q)), 0)
MulRounded(a, b, ea, eb, q) ==
    Nearest(q, RAdd(RMul(a, ErrIn(eb, b, q)), RMul(b, ErrIn(ea, a, q))),
            Sign(ea.n) * Sign(eb.n))
DivRounded(a, b, ea, eb, q) ==
    Nearest(q, RDiv(RSub(ErrIn(ea, a, q), RMul(q, ErrIn(eb, b, q))), b),
            Sign(q.n) * Sign(RMul(RelErr(eb, b), RSub(RelErr(eb, b), RelErr(ea, a))).n))
\* a + b on f64
FAdd(a, b) ==
    IF a.d = 0 \/ b.d = 0 THEN RAdd(a, b)
    ELSE IF a.n = 0 THEN b
    ELSE IF b.n = 0 THEN a
    ELSE IF IsExact(a) /\ IsExact(b) THEN RAdd(a, b)
    ELSE AddRounded(a, b, Err(a), Err(b), RAdd(a, b))
\* a - b on f64
FSub(a, b) == FAdd(a, RNeg(b))
\* a * b on f64
FMul(a, b) ==
    IF a.d = 0 \/ b.d = 0 THEN RMul(a, b)
    ELSE IF a.n = 0 \/ b.n = 0 THEN Num(0)
    ELSE IF IsExact(a) /\ IsExact(b) THEN RMul(a, b)
    ELSE MulRounded(a, b, Err(a), Err(b), RMul(a, b))
\* a / b on f64
FDiv(a, b) ==
    IF a.d = 0 \/ b.d = 0 \/ b.n = 0 THEN RDiv(a, b)
    ELSE IF a.n = 0 THEN Num(0)
    ELSE IF IsExact(a) /\ IsExact(b) THEN RDiv(a, b)
    ELSE DivRounded(a, b, Err(a), Err(b), RDiv(a, b))
\* iter().sum::<f64>(): the elements are added in order, from zero
RECURSIVE FSum(_)
FSum(s) ==
    IF s = <<>> THEN Num(0) ELSE FAdd(FSum(SubSeq(s, 1, Len(s) - 1)), s[Len(s)])

\* f64 -> integer casts truncate toward zero: an f64 under an integer (above
\* a negative one) falls to the next one
Trunc(v) ==
    IF v.d = 1 THEN (IF Sign(v.n) * Err(v).n < 0 THEN v.n - Sign(v.n) ELSE v.n)
    ELSE IF v.n >= 0 THEN v.n \div v.d
    ELSE -((-v.n) \div v.d)
\* f64::round: to the nearest integer, halves away from zero; an f64 short
\* of a half goes toward zero
Round(v) ==
    LET away == IF v.n >= 0 THEN (2 * v.n + v.d) \div (2 * v.d)
                ELSE -((2 * (-v.n) + v.d) \div (2 * v.d))
    IN  IF v.d = 2 /\ Sign(v.n) * Err(v).n < 0 THEN away - Sign(v.n) ELSE away

\* u64: the integer i, or u64::MAX
U64(i) == [max |-> FALSE, i |-> i]
U64Max == [max |-> TRUE, i |-> 0]
U64Lt(a, b) == ~a.max /\ (b.max \/ a.i < b.i)
\* (u64::MAX as f64) / 1000., the f64 18446744073709552: it is beyond the
\* integers of TLC and only the casts are defined on it
MaxMilli == [huge |-> TRUE]

\* Body of the value v: v is computed once, wherever Body uses it
Bind(v, Body(_)) == Body(v)

Min(a, b) == IF a < b THEN a ELSE b
Max(a, b) == IF a > b THEN a ELSE b

None == <<>>
Some(v) == <<v>>

-----------------------------------------------------------------------------
(* u32 as two 16-bit halves *)

U32(hi, lo) == [hi |-> hi, lo |-> lo]
U32Of(i) == U32(i \div Half, i % Half)
U32Max == U32(Half - 1, Half - 1)
\* offset + s for 0 <= s <= 100: the wrapped sum and whether it overflowed
U32Add(u, s) ==
    LET lo == u.lo + s
        hi == u.hi + (lo \div Half)
    IN  [sum |-> U32(hi % Half, lo % Half), overflow |-> hi >= Half]
U32Le(a, b) == a.hi < b.hi \/ (a.hi = b.hi /\ a.lo <= b.lo)
IsU32(v) == "hi" \in DOMAIN v
\* The rational of an f64 of either form.
Q(v) == IF IsU32(v) THEN Num(v.hi * Half + v.lo) ELSE v

-----------------------------------------------------------------------------
(* Operation parameters (operations/parameters.rs) and their apply() *)

IdentityParameters == [kind |-> "Identity"]
PIDParameters(offset) == [kind |-> "PID", offset |-> offset]
DampenedOscillatorParameters(m, k, dt, target) ==
    [kind |-> "DampenedOscillator", m |-> m, k |-> k, dt |-> dt, target |-> target]
ClipParameters(min, max) == [kind |-> "Clip", min |-> min, max |-> max]
AtLeastParameters(val) == [kind |-> "AtLeast", val |-> val]
SupersampleParameters(n) == [kind |-> "Supersample", n |-> n]
SubsampleParameters(n) == [kind |-> "Subsample", n |-> n]
AverageParameters(n) == [kind |-> "Average", n |-> n]

\* (x * 1000.) as u64
\* NaN, -inf and every negative value cast to 0, +inf and every value of
\* 2^64 or more to u64::MAX.
ToMilli(x) ==
    IF "huge" \in DOMAIN x THEN U64Max
    ELSE LET v == Q(x)
         IN  IF IsNaN(v) \/ v.n <= 0 THEN U64(0)
             ELSE IF v.d = 0 THEN U64Max
             ELSE U64(Trunc(FMul(v, Num(Milli))))
\* (tmp as f64) / 1000.
FromMilli(tmp) == IF tmp.max THEN MaxMilli ELSE Rat(tmp.i, Milli)

\* f64::sqrt, for the squares of rationals; NaN for a negative number
ISqrt(i) == CHOOSE r \in 0..i : r * r = i
RSqrt(q) == IF q.n < 0 THEN NaN ELSE Rat(ISqrt(q.n), ISqrt(q.d))

\* Every adaptor wraps its input in Fuse (iter.fuse()); iterDone is the state
\* of that Fuse.  monitor is Option<Monitor>, the Monitor being its id.
IdentityApply(p, monitor) ==
    [kind |-> "Identity", iterDone |-> FALSE, monitor |-> monitor]
PIDApply(p, monitor) ==
    [kind |-> "PID", iterDone |-> FALSE, monitor |-> monitor, offset |-> p.offset]
\* an apply that starts the oscillator at the configured target
DampenedOscillatorApplyAtTarget(p, monitor) ==
    [kind |-> "DampenedOscillator", iterDone |-> FALSE, monitor |-> monitor,
     m |-> p.m, k |-> p.k, dt |-> p.dt, target |-> p.target,
     c |-> FMul(Num(2), RSqrt(FMul(p.k, p.m))),
     pos |-> p.target, vel |-> Num(0), acc |-> Num(0)]
DampenedOscillatorApply(p, monitor) ==
    [kind |-> "DampenedOscillator", iterDone |-> FALSE, monitor |-> monitor,
     m |-> p.m, k |-> p.k, dt |-> p.dt, target |-> Num(OscInit),
     c |-> FMul(Num(2), RSqrt(FMul(p.k, p.m))),
     pos |-> Num(OscInit), vel |-> Num(0), acc |-> Num(0)]
ClipApply(p, monitor) ==
    [kind |-> "Clip", iterDone |-> FALSE, monitor |-> monitor,
     max |-> ToMilli(p.max), min |-> ToMilli(p.min)]
AtLeastApply(p, monitor) ==
    [kind |-> "AtLeast", iterDone |-> FALSE, monitor |-> monitor, val |-> ToMilli(p.val)]
SupersampleApply(p, monitor) ==
    [kind |-> "Supersample", iterDone |-> FALSE, monitor |-> monitor,
     n |-> p.n, count |-> 1, last_val |-> None]
SubsampleApply(p, monitor) ==
    [kind |-> "Subsample", iterDone |-> FALSE, monitor |-> monitor, n |-> p.n]
AverageApply(p, monitor) ==
    [kind |-> "Average", iterDone |-> FALSE, monitor |-> monitor,
     n |-> p.n, index |-> 0, prev_vals |-> <<>>]

\* The match on OperationParameters in Pipeline::start.
Apply(p, monitor) ==
    CASE p.kind = "Identity" -> IdentityApply(p, monitor)
      [] p.kind = "PID" -> PIDApply(p, monitor)
      [] p.kind = "DampenedOscillator" -> DampenedOscillatorApply(p, monitor)
      [] p.kind = "Clip" -> ClipApply(p, monitor)
      [] p.kind = "AtLeast" -> AtLeastApply(p, monitor)
      [] p.kind = "Supersample" -> SupersampleApply(p, monitor)
      [] p.kind = "Subsample" -> SubsampleApply(p, monitor)
      [] p.kind = "Average" -> AverageApply(p, monitor)

\* The loop of Pipeline::start: stage k (1-based here) is built from
\* operations[k-1] on top of stage k-1 and gets Monitor{id: k-1} when monitored.
\*   st        the stages, st[k] reading from st[k-1], st[1] from the sensor
\*   src       the readings the sensor will still return (each an Option)
\*   ctrl      the outputs Pid::next_control_output will still return
\*   checked   whether the build panics on integer overflow (debug) or wraps
\*   chan      the mpsc channel: messages sent and not yet received
\*   sent      number of messages sent so far
\*   log       what the next() call on the chain did outside the chain, in
\*             order: reads of the sensor and sends on the channel
\*   rx        whether the Receiver of the channel is alive
\*   unwinding whether the expect of a Monitor::send has panicked
\*   calls     calls[k+1] counts the next() calls on stage k (0 is the sensor)
\* an enumeration of the operations that counts from 1
PipelineBuildFromOne(operations, monitored, src, ctrl, checked) ==
    [st |-> [k \in 1..Len(operations) |->
                Apply(operations[k], IF monitored THEN Some(k) ELSE None)],
     src |-> src, ctrl |-> ctrl, checked |-> checked,
     chan |-> <<>>, sent |-> 0, log |-> <<>>, rx |-> TRUE, unwinding |-> FALSE,
     calls |-> [k \in 1..(Len(operations) + 1) |-> 0]]
\* an assembly that hands out Monitors whether asked to or not
PipelineBuildAlwaysMonitored(operations, monitored, src, ctrl, checked) ==
    [st |-> [k \in 1..Len(operations) |-> Apply(operations[k], Some(k - 1))],
     src |-> src, ctrl |-> ctrl, checked |-> checked,
     chan |-> <<>>, sent |-> 0, log |-> <<>>, rx |-> TRUE, unwinding |-> FALSE,
     calls |-> [k \in 1..(Len(operations) + 1) |-> 0]]
PipelineBuild(operations, monitored, src, ctrl, checked) ==
    [st |-> [k \in 1..Len(operations) |->
                Apply(operations[k], IF monitored THEN Some(k - 1) ELSE None)],
     src |-> src, ctrl |-> ctrl, checked |-> checked,
     chan |-> <<>>, sent |-> 0, log |-> <<>>, rx |-> TRUE, unwinding |-> FALSE,
     calls |-> [k \in 1..(Len(operations) + 1) |-> 0]]

-----------------------------------------------------------------------------
(* Iterator::next of the sensor and of every adaptor.  Each returns        *)
(* [c, val, panic]: the chain afterwards, the Option<f64> returned, and    *)
(* whether the call panicked instead of returning.                         *)

Panicked(c) == [c |-> c, val |-> None, panic |-> TRUE]
\* the call returns v, unless a send it made has panicked
Ret(c, v) == IF c.unwinding THEN Panicked(c) ELSE [c |-> c, val |-> v, panic |-> FALSE]
Called(c, k) == [c EXCEPT !.calls[k + 1] = @ + 1]

Message(c, k, tag, payload) ==
    [id |-> c.st[k].monitor[1], tag |-> tag, val |-> payload, sn |-> c.sent + 1]
Sending(put) == [ev |-> "send", put |-> put]
Reading == [ev |-> "read"]

\* a bounded channel: a message sent while two are pending is lost
MonitorSendBounded(c, k, tag, payload) ==
    IF c.st[k].monitor = None THEN c
    ELSE IF Len(c.chan) >= 2
         THEN [c EXCEPT !.sent = @ + 1, !.log = Append(@, Sending(<<>>))]
    ELSE [c EXCEPT !.chan = Append(@, Message(c, k, tag, payload)),
                   !.sent = @ + 1,
                   !.log = Append(@, Sending(<<Message(c, k, tag, payload)>>))]

\* Monitor::send of stage k: "{id}: {str}" onto the channel; nothing when the
\* stage holds no monitor.  The send fails when the Receiver is gone, and
\* the expect then panics: nothing of the call is done after that.
MonitorSend(c, k, tag, payload) ==
    IF c.st[k].monitor = None \/ c.unwinding THEN c
    ELSE IF ~c.rx THEN [c EXCEPT !.unwinding = TRUE]
    ELSE [c EXCEPT !.chan = Append(@, Message(c, k, tag, payload)),
                   !.sent = @ + 1,
                   !.log = Append(@, Sending(<<Message(c, k, tag, payload)>>))]

\* What one call of Input::next finds: Some(reading); None (RPiCpuTemp: the
\* temperature file cannot be read or parsed); Fault (External: the command
\* cannot be run or its output is not a number, and the expect panics).
Fault == <<[panic |-> TRUE]>>
IsFault(o) == o # None /\ "panic" \in DOMAIN o[1]

\* Input::next
InputNext(c) ==
    LET cc == [Called(c, 0) EXCEPT !.log = Append(@, Reading)]
    IN  IF c.src = <<>> THEN Ret(cc, None)
        ELSE IF IsFault(Head(c.src)) THEN Panicked([cc EXCEPT !.src = Tail(@)])
        ELSE Ret([cc EXCEPT !.src = Tail(@)], Head(c.src))

RECURSIVE StageNext(_, _)

\* an adaptor that remembers the end of its input but calls it all the same
FuseNextUnfused(k, c) ==
    Bind(StageNext(k - 1, c), LAMBDA r :
        IF ~r.panic /\ r.val = None
        THEN [r EXCEPT !.c.st[k].iterDone = TRUE]
        ELSE r)
\* Fuse::next of the Fuse inside stage k: once the inner iterator has
\* returned None it is never called again.
FuseNext(k, c) ==
    IF c.st[k].iterDone THEN Ret(c, None)
    ELSE Bind(StageNext(k - 1, c), LAMBDA r :
             IF ~r.panic /\ r.val = None
             THEN [r EXCEPT !.c.st[k].iterDone = TRUE]
             ELSE r)

IdentityNext(k, c) == FuseNext(k, c)

\* if t.is_sign_negative() { -t } else { 0. }: the sign bit of a NaN is
\* whatever the operation that made it left there (set for 0.0 / 0.0 on
\* x86-64, clear on ARM): a NaN term carries it in the field neg
NegNaN == [n |-> 0, d |-> 0, neg |-> TRUE]
PosNaN == [n |-> 0, d |-> 0, neg |-> FALSE]
Rectify(t) ==
    IF IsNaN(t) THEN (IF "neg" \in DOMAIN t /\ t.neg THEN NaN ELSE Num(0))
    ELSE IF t.n < 0 THEN RNeg(t) ELSE Num(0)
\* max(0, min(100, sum)) for sum = total as u32: the cast of NaN is 0, the
\* one of +inf u32::MAX
Clamped(total) ==
    IF IsNaN(total) THEN 0
    ELSE IF ~IsFinite(total) THEN (IF total.n > 0 THEN PidMax ELSE 0)
    ELSE Max(0, Min(PidMax, AsUnsigned(Trunc(total))))

PIDNext(k, c) ==
    Bind(FuseNext(k, c), LAMBDA r :
        IF r.panic \/ r.val = None THEN r
        ELSE LET control == Head(r.c.ctrl)
                 c1 == [r.c EXCEPT !.ctrl = Tail(@)]
                 p == Rectify(control.p)
                 i == Rectify(control.i)
                 d == Rectify(control.d)
             IN  Bind(MonitorSend(c1, k, "PID", [P |-> p, I |-> i, D |-> d]), LAMBDA c2 :
                 Bind(U32Add(c2.st[k].offset, Clamped(FAdd(FAdd(p, i), d))), LAMBDA add :
                     IF add.overflow /\ c2.checked THEN Panicked(c2)
                     ELSE Ret(MonitorSend(c2, k, ">", add.sum), Some(add.sum)))))

DampenedOscillatorNext(k, c) ==
    Bind(FuseNext(k, c), LAMBDA r :
        IF r.panic \/ r.val = None THEN r
        ELSE LET s == r.c.st[k]
                 target == Q(r.val[1])
             IN
             Bind(FSub(FMul(FMul(Num(-1), s.k), FSub(s.pos, target)),
                       FMul(s.c, s.vel)), LAMBDA acc :
             Bind(FAdd(FAdd(s.pos, FMul(s.dt, s.vel)),
                       FMul(FMul(FMul(Rat(1, 2), s.dt), s.dt), s.acc)), LAMBDA new_pos :
             Bind(FDiv(s.dt, FMul(Num(2), s.m)), LAMBDA fac :
             Bind(FMul(FDiv(Num(1), FAdd(Num(1), FMul(s.c, fac))),
                       FAdd(FMul(s.vel, FSub(Num(1), FMul(s.c, fac))),
                            FMul(fac, FSub(s.acc, acc)))), LAMBDA new_vel :
                 LET c1 == [r.c EXCEPT !.st[k].target = target, !.st[k].acc = acc,
                                       !.st[k].vel = new_vel, !.st[k].pos = new_pos]
                     c2 == MonitorSend(c1, k, "DampenedOscillator",
                                       [target |-> target, pos |-> new_pos,
                                        vel |-> new_vel, acc |-> acc])
                 IN  Ret(MonitorSend(c2, k, ">", new_pos), Some(new_pos)))))))

\* a Clip without its lower bound
ClipNextUpperOnly(k, c) ==
    Bind(FuseNext(k, c), LAMBDA r :
        IF r.panic \/ r.val = None THEN r
        ELSE Bind(ToMilli(r.val[1]), LAMBDA tmp0 :
             LET s == r.c.st[k]
                 tmp == IF U64Lt(s.max, tmp0) THEN s.max ELSE tmp0
                 out == FromMilli(tmp)
                 c1 == MonitorSend(r.c, k, "Clip", [max |-> s.max, min |-> s.min])
             IN  Ret(MonitorSend(c1, k, ">", out), Some(out))))
\* a Clip that reports its output before its state
ClipNextOutputFirst(k, c) ==
    Bind(FuseNext(k, c), LAMBDA r :
        IF r.panic \/ r.val = None THEN r
        ELSE Bind(ToMilli(r.val[1]), LAMBDA tmp0 :
             LET s == r.c.st[k]
                 tmp1 == IF U64Lt(s.max, tmp0) THEN s.max ELSE tmp0
                 tmp == IF U64Lt(tmp1, s.min) THEN s.min ELSE tmp1
                 out == FromMilli(tmp)
                 c1 == MonitorSend(r.c, k, ">", out)
             IN  Ret(MonitorSend(c1, k, "Clip", [max |-> s.max, min |-> s.min]), Some(out))))
ClipNext(k, c) ==
    Bind(FuseNext(k, c), LAMBDA r :
        IF r.panic \/ r.val = None THEN r
        ELSE Bind(ToMilli(r.val[1]), LAMBDA tmp0 :
             LET s == r.c.st[k]
                 tmp1 == IF U64Lt(s.max, tmp0) THEN s.max ELSE tmp0
                 tmp == IF U64Lt(tmp1, s.min) THEN s.min ELSE tmp1
                 out == FromMilli(tmp)
                 c1 == MonitorSend(r.c, k, "Clip", [max |-> s.max, min |-> s.min])
             IN  Ret(MonitorSend(c1, k, ">", out), Some(out))))

AtLeastNext(k, c) ==
    Bind(FuseNext(k, c), LAMBDA r :
        IF r.panic \/ r.val = None THEN r
        ELSE Bind(ToMilli(r.val[1]), LAMBDA tmp0 :
             LET s == r.c.st[k]
                 tmp == IF U64Lt(tmp0, s.val) THEN U64(0) ELSE tmp0
                 out == FromMilli(tmp)
                 c1 == MonitorSend(r.c, k, "AtLeast", [val |-> s.val])
             IN  Ret(MonitorSend(c1, k, ">", out), Some(out))))

\* a stage that skips its repeat budget check re-emits one time too many
SupersampleRepeatsOnceMore(s) == s.last_val # None /\ s.count <= s.n
\* self.last_val.is_some() && self.count < self.n
SupersampleRepeats(s) == s.last_val # None /\ s.count < s.n

SupersampleNext(k, c) ==
    LET s == c.st[k]
    IN  IF SupersampleRepeats(s)
        THEN LET c1 == MonitorSend(c, k, "Supersample",
                                   [n |-> s.n, count |-> s.count, last_val |-> s.last_val])
             IN  Bind(MonitorSend(c1, k, ">", s.last_val[1]), LAMBDA c2 :
                     Ret([c2 EXCEPT !.st[k].count = IF c2.unwinding THEN @ ELSE @ + 1],
                         s.last_val))
        ELSE Bind(FuseNext(k, c), LAMBDA r :
                 IF r.panic \/ r.val = None THEN r
                 ELSE LET c1 == [r.c EXCEPT !.st[k].last_val = r.val, !.st[k].count = 1]
                          c2 == MonitorSend(c1, k, "Supersample",
                                            [n |-> s.n, count |-> 1, last_val |-> r.val])
                      IN  Ret(MonitorSend(c2, k, ">", r.val[1]), r.val))

\* for _i in 0..times { let _discard = self.iter.next(); }
RECURSIVE Discard(_, _, _)
Discard(k, c, times) ==
    IF times = 0 THEN Ret(c, None)
    ELSE Bind(FuseNext(k, c), LAMBDA r :
             IF r.panic THEN r ELSE Discard(k, r.c, times - 1))

\* a loop over 1..n instead of 0..n drops one value too few
DropsOneLess(s) == Max(0, s.n - 1)
\* a loop over 0..=n drops one value too many
DropsOneMore(s) == s.n + 1
\* the range 0..self.n of the discarding loop
Drops(s) == s.n

SubsampleNext(k, c) ==
    Bind(Discard(k, c, Drops(c.st[k])), LAMBDA d :
        IF d.panic THEN d
        ELSE Bind(FuseNext(k, d.c), LAMBDA r :
                 IF r.panic THEN r
                 ELSE LET c1 == MonitorSend(r.c, k, "Subsample", [n |-> r.c.st[k].n])
                          shown == IF r.val = None THEN Num(-1) ELSE r.val[1]
                      IN  Ret(MonitorSend(c1, k, ">", shown), r.val)))

\* a ring index that is never advanced
NextIndexStuck(s) == s.index
\* (self.index + 1) % self.n
NextIndex(s) == (s.index + 1) % s.n

\* prev_vals with prev_vals[index] = val (index is 0-based)
SetAt(vals, index, val) == [vals EXCEPT ![index + 1] = val]

AverageNext(k, c) ==
    Bind(FuseNext(k, c), LAMBDA r :
        IF r.panic \/ r.val = None THEN r
        ELSE LET s == r.c.st[k]
                 val == Q(r.val[1])
             IN  IF Len(s.prev_vals) < s.n
                 THEN LET vals == Append(s.prev_vals, val)
                          c1 == [r.c EXCEPT !.st[k].prev_vals = vals]
                          c2 == MonitorSend(c1, k, "Average",
                                    [n |-> s.n, index |-> s.index, prev_vals |-> vals])
                      IN  Bind(FDiv(FSum(vals), Num(Len(vals))), LAMBDA mean :
                              Ret(MonitorSend(c2, k, ">", mean), Some(mean)))
                 ELSE IF s.index >= Len(s.prev_vals)
                 THEN Panicked(r.c)   \* prev_vals[index] out of bounds (n = 0)
                 ELSE LET vals == SetAt(s.prev_vals, s.index, val)
                          index == NextIndex(s)
                          c1 == [r.c EXCEPT !.st[k].prev_vals = vals,
                                            !.st[k].index = index]
                          c2 == MonitorSend(c1, k, "Average",
                                    [n |-> s.n, index |-> index, prev_vals |-> vals])
                      IN  Bind(FDiv(FSum(vals), Num(Len(vals))), LAMBDA mean :
                              Ret(MonitorSend(c2, k, ">", mean), Some(mean))))

\* next() on stage k of the chain; stage 0 is the sensor.
StageNext(k, c) ==
    IF k = 0 THEN InputNext(c)
    ELSE LET cc == Called(c, k)
             kind == c.st[k].kind
         IN  CASE kind = "Identity" -> IdentityNext(k, cc)
               [] kind = "PID" -> PIDNext(k, cc)
               [] kind = "DampenedOscillator" -> DampenedOscillatorNext(k, cc)
               [] kind = "Clip" -> ClipNext(k, cc)
               [] kind = "AtLeast" -> AtLeastNext(k, cc)
               [] kind = "Supersample" -> SupersampleNext(k, cc)
               [] kind = "Subsample" -> SubsampleNext(k, cc)
               [] kind = "Average" -> AverageNext(k, cc)

\* next() on the composed chain (last_iterator of Pipeline::start)
ChainNext(c) == StageNext(Len(c.st), [c EXCEPT !.log = <<>>])

-----------------------------------------------------------------------------
(* Scenarios: the configurations and sensor readings the model is run on *)

\* All sequences over S of length 0..n
SeqsUpTo(S, n) == UNION {[1..m -> S] : m \in 0..n}

\* A configuration and what its surroundings do: the Pipeline (operations and
\* output; the input is what src makes of it), the --socket flag (monitored),
\* the build (checked), the readings of the sensor, the answers of the
\* controller and the number of clients that connect to the socket.
Scenario(operations, src, ctrl, monitored, checked) ==
    [operations |-> operations, src |-> src, ctrl |-> ctrl,
     monitored |-> monitored, checked |-> checked,
     output |-> "PWM", conns |-> IF monitored THEN MaxConns - 1 ELSE 0]

NoCtrl == <<>>

RateVals == {Some(Num(10)), Some(Num(20))}
AvgVals == {Some(Num(10)), Some(Num(20)), Some(Num(30)), Some(Num(40))}
PointVals == {Some(Dec(29999)), Some(Dec(100001)), Some(Num(-7)), Some(Num(100)),
              Some(Rat(500004, 10000)), Some(Num(30)), Some(Rat(1, 10000)),
              Some(Rat(1, 0))}
ClipBounds == {<<Num(30), Num(100)>>, <<Rat(300005, 10000), Num(100)>>,
               <<Num(-5), Num(-1)>>, <<Num(0), Num(0)>>}
Thresholds == {Num(30), Num(0), Rat(300005, 10000)}
Offsets == {U32Of(0), U32Of(30), U32(Half - 1, Half - 1 - PidMax),
            U32(Half - 1, Half - PidMax), U32Max}
\* what Pid::next_control_output may return: terms of either sign, sums
\* below 1, between 1 and 100, and above 100
ControlOutputs ==
    {[p |-> Num(-150), i |-> Num(-60), d |-> Num(-1)],
     [p |-> Rat(-1, 2), i |-> Num(0), d |-> Num(5)],
     [p |-> Rat(-1, 2), i |-> Num(0), d |-> Num(-1)],
     [p |-> Num(20), i |-> Num(-60), d |-> Num(5)],
     [p |-> Num(0), i |-> Num(0), d |-> Num(5)],
     [p |-> Num(20), i |-> Num(0), d |-> Num(-1)],
     [p |-> NegNaN, i |-> Num(-60), d |-> Num(5)],
     [p |-> Num(-150), i |-> PosNaN, d |-> Num(-1)]}
\* terms whose magnitudes sum to 1 as decimals and fall short of it in f64:
\* 0.3 + 0.6 + 0.1 is 0.9999999999999999
ShortOfOne == [p |-> Rat(-3, 10), i |-> Rat(-6, 10), d |-> Rat(-1, 10)]

SupersampleScenario(sc) ==
    \E n \in 0..MaxN, src \in SeqsUpTo(RateVals \cup {None}, MaxSrc), mon \in BOOLEAN :
        sc = Scenario(<<SupersampleParameters(n)>>, src, NoCtrl, mon, FALSE)
SubsampleScenario(sc) ==
    \E n \in 0..MaxN, src \in SeqsUpTo(RateVals \cup {None}, MaxSrc), mon \in BOOLEAN :
        sc = Scenario(<<SubsampleParameters(n)>>, src, NoCtrl, mon, FALSE)
\* readings whose sums and means are rounded by the f64 arithmetic
DecimalRuns == {<<Some(Dec(55849)), Some(Dec(7357))>>,
                <<Some(Dec(49707)), Some(Dec(71779))>>,
                <<Some(Dec(93273)), Some(Dec(62523)), Some(Dec(41217))>>,
                <<Some(Dec(64580)), Some(Dec(97750))>>,
                <<Some(Dec(55849)), Some(Dec(7357)), Some(Dec(49707)), Some(Dec(62523))>>}
\* readings below zero and of both signs, two of them cancelling almost
SignedRuns == {<<Some(Dec(-55849)), Some(Dec(-7357))>>,
               <<Some(Dec(55849)), Some(Dec(-55848))>>,
               <<Some(Dec(55849)), Some(Dec(-7357)), Some(Dec(-49707))>>,
               <<Some(Num(-10)), Some(Num(20)), Some(Num(-30)), Some(Num(40))>>}
AverageScenario(sc) ==
    \E n \in 0..MaxN, src \in SeqsUpTo(AvgVals, MaxSrc) \cup DecimalRuns \cup SignedRuns :
        sc = Scenario(<<AverageParameters(n)>>, src, NoCtrl, FALSE, FALSE)
ClipScenario(sc) ==
    \E b \in ClipBounds, src \in SeqsUpTo(PointVals, ShortSrc) :
        sc = Scenario(<<ClipParameters(b[1], b[2])>>, src, NoCtrl, FALSE, FALSE)
AtLeastScenario(sc) ==
    \E t \in Thresholds, src \in SeqsUpTo(PointVals, ShortSrc) :
        sc = Scenario(<<AtLeastParameters(t)>>, src, NoCtrl, FALSE, FALSE)
PIDScenario(sc) ==
    \E o \in Offsets, ctrl \in SeqsUpTo(ControlOutputs, ShortSrc) \cup {<<ShortOfOne>>},
       checked \in BOOLEAN :
        sc = Scenario(<<PIDParameters(o)>>, [j \in 1..Len(ctrl) |-> Some(Num(40))],
                      ctrl, FALSE, checked)

\* masses, spring constants and time steps of the oscillator: the usual
\* positive ones, zero, and a negative mass
Masses == {Num(1), Num(4), Num(0), Num(-1)}
Springs == {Num(1), Num(4), Num(0)}
Steps == {Num(1), Rat(1, 2), Num(0)}
OscVals == {Some(Num(OscInit)), Some(Num(50))}
\* configured targets: the initial position, and the one of the built-in chain
Targets == {Num(OscInit), Num(0)}
DampenedOscillatorScenario(sc) ==
    \E m \in Masses, k \in Springs, dt \in Steps, target \in Targets,
       src \in SeqsUpTo({Some(Num(OscInit))}, MaxSrc) \cup SeqsUpTo(OscVals, ShortSrc) :
        sc = Scenario(<<DampenedOscillatorParameters(m, k, dt, target)>>,
                      src, NoCtrl, FALSE, FALSE)

\* how often a stage can emit one reading
RepeatOf(p) == IF p.kind = "Supersample" THEN Max(1, p.n) ELSE 1

\* one stage of every kind, for the chains of two stages
KindsOfStage ==
    {IdentityParameters, PIDParameters(U32Of(30)),
     DampenedOscillatorParameters(Num(1), Num(1), Num(1), Num(OscInit)),
     ClipParameters(Num(30), Num(100)), AtLeastParameters(Num(30)),
     SupersampleParameters(2), SubsampleParameters(1), AverageParameters(2)}
\* a sensor that may return nothing and readings again afterwards
ChainVals == {Some(Num(20)), Some(Num(50)), None}
SteadyControl == [p |-> Num(-20), i |-> Num(0), d |-> Num(5)]
\* every chain of two stages, in both orders, monitored or not; the
\* controllers answer every call two PID stages can make
ChainScenario(sc) ==
    \E first \in KindsOfStage, second \in KindsOfStage,
       src \in SeqsUpTo(ChainVals, ChainSrc), mon \in BOOLEAN :
        sc = Scenario(<<first, second>>, src,
                      [j \in 1..(2 * Len(src) * RepeatOf(first) * RepeatOf(second))
                          |-> SteadyControl],
                      mon, FALSE)

\* an External input (whose next() never returns None): the command answers
\* with a number a few times and then fails, in front of a Clip or of no
\* stage at all, monitored or not
ExternalAnswers == {<<>>, <<Some(Num(50))>>, <<Some(Num(50)), Some(Num(20))>>}
ExternalInputScenario(sc) ==
    \E operations \in {<<>>, <<ClipParameters(Num(30), Num(100))>>},
       answers \in ExternalAnswers, mon \in BOOLEAN :
        sc = Scenario(operations, Append(answers, Fault), NoCtrl,
                      mon /\ operations # <<>>, FALSE)

\* an Average in front of a stage that casts its input
AverageCastScenario(sc) ==
    \E n \in 2..3, src \in DecimalRuns,
       cast \in {ClipParameters(Num(0), Num(100)), ClipParameters(Num(30), Num(100)),
                 AtLeastParameters(Num(30))} :
        sc = Scenario(<<AverageParameters(n), cast>>, src, NoCtrl, FALSE, FALSE)

StageScenario(sc) ==
    \/ ChainScenario(sc)
    \/ AverageCastScenario(sc)
    \/ ExternalInputScenario(sc)
    \/ DampenedOscillatorScenario(sc)
    \/ SupersampleScenario(sc)
    \/ SubsampleScenario(sc)
    \/ AverageScenario(sc)
    \/ ClipScenario(sc)
    \/ AtLeastScenario(sc)
    \/ PIDScenario(sc)

\* Pipeline::start up to the point where the control loop is entered.
Start(sc) == PipelineBuild(sc.operations, sc.monitored, sc.src, sc.ctrl, sc.checked)

-----------------------------------------------------------------------------
(* The chain driven directly: next() is called on the composed chain and   *)
(* what it returns is recorded.                                            *)

\* The driver calls next() until every reading can have been emitted, and
\* ExtraPulls times more.
RECURSIVE Repeats(_)
Repeats(operations) ==
    IF operations = <<>> THEN 1
    ELSE RepeatOf(Head(operations)) * Repeats(Tail(operations))
PullBound(sc) == Len(sc.src) * Repeats(sc.operations) + ExtraPulls

NoHub == [pc |-> "none", val |-> None, i |-> 0, to_del |-> <<>>]

Idle ==
    /\ exited = FALSE
    /\ sched = "Stopped"
    /\ last = Num(0)
    /\ sink = <<>>
    /\ hub = NoHub
    /\ clients = <<>>
    /\ lock = "none"
    /\ wrote = <<>>
    /\ joined = <<>>
    /\ nconn = 0

\* Pipeline::start(true) hands the Receiver to its caller, who keeps it or
\* drops it
Receivers(sc) == IF sc.monitored THEN BOOLEAN ELSE {TRUE}

InitChain ==
    /\ StageScenario(conf)
    /\ \E kept \in Receivers(conf) : chain = [Start(conf) EXCEPT !.rx = kept]
    /\ outs = <<>>
    /\ crashed = FALSE
    /\ Idle

ChainPull ==
    /\ ~crashed
    /\ Len(outs) < PullBound(conf)
    /\ \E r \in {ChainNext(chain)} :
           /\ chain' = r.c
           /\ crashed' = r.panic
           /\ outs' = IF r.panic THEN outs ELSE Append(outs, r.val)
    /\ UNCHANGED <<conf, exited, sched, last, sink, hub, clients, lock, wrote, joined, nconn>>

NextChain == ChainPull

SpecChain == InitChain /\ [][NextChain]_vars

-----------------------------------------------------------------------------
(* Properties of single stages, stated on the directly driven chain *)

OnlyStage(kind) == Len(conf.operations) = 1 /\ conf.operations[1].kind = kind
AllSome(src) == \A j \in 1..Len(src) : src[j] # None
\* what the stage makes of the j-th reading when every reading is used
\* n times in a row
Repeated(src, n, j) == IF j <= n * Len(src) THEN src[((j - 1) \div n) + 1] ELSE None
\* sensor calls needed for j outputs when every reading is used n times: one
\* per reading started, and one more finds the sensor exhausted
SensorCalls(src, n, j) ==
    IF j <= n * Len(src) THEN (j + n - 1) \div n ELSE Len(src) + 1

\* C5 as stated: Supersample(n) emits every reading exactly n times, for
\* every n including 0, and calls the sensor again only when the stored
\* reading has been emitted n times.
C5_Original ==
    (OnlyStage("Supersample") /\ AllSome(conf.src)) =>
        LET n == conf.operations[1].n
        IN  \A j \in 1..Len(outs) :
                outs[j] = (IF n = 0 THEN None ELSE Repeated(conf.src, n, j))

\* C5 amended: Supersample(n) with n >= 1 emits every reading exactly n
\* times in input order and then nothing, and the number of sensor calls made
\* for j outputs is ceil(j / n); Supersample(0) behaves as Supersample(1).
C5_SupersampleRepeats ==
    (OnlyStage("Supersample") /\ AllSome(conf.src)) =>
        LET n == Max(1, conf.operations[1].n)
        IN  /\ \A j \in 1..Len(outs) : outs[j] = Repeated(conf.src, n, j)
            /\ ~crashed => chain.calls[1] = SensorCalls(conf.src, n, Len(outs))

C5_Witness ==
    /\ conf.operations = <<SupersampleParameters(2)>>
    /\ conf.src = <<Some(Num(10)), Some(Num(20))>>
    /\ outs = <<Some(Num(10)), Some(Num(10)), Some(Num(20)), Some(Num(20)), None>>

\* C6: Subsample(n) on k*(n+1) readings emits exactly k values and then
\* nothing; the j-th emitted value is the reading at position j*(n+1).
C6_SubsampleDecimates ==
    (/\ OnlyStage("Subsample")
     /\ AllSome(conf.src)
     /\ Len(conf.src) % (conf.operations[1].n + 1) = 0) =>
        LET n == conf.operations[1].n
            k == Len(conf.src) \div (n + 1)
        IN  \A j \in 1..Len(outs) :
                outs[j] = (IF j <= k THEN conf.src[j * (n + 1)] ELSE None)

C6_Witness ==
    /\ conf.operations = <<SubsampleParameters(1)>>
    /\ conf.src = <<Some(Num(10)), Some(Num(20)), Some(Num(20)), Some(Num(10))>>
    /\ outs = <<Some(Num(20)), Some(Num(10)), None>>

\* the last min(t, n) of the first t readings, each in the place of the ring
\* buffer of n places it was written to: reading i in place (i - 1) mod n
LastValues(src, t, n) ==
    [j \in 1..Min(t, n) |->
        src[CHOOSE i \in (t - Min(t, n) + 1)..t : (i - 1) % n = j - 1][1]]
\* the arithmetic mean of the f64 values w as f64 arithmetic computes it:
\* the values are added to 0.0 in the order of w and the sum is divided by
\* their number, each operation rounding its result to the nearest f64
MeanOf(w) == FDiv(FSum(w), Num(Len(w)))

\* Means the program yields, as f64 values: the example of Average(3); two
\* readings that cancel almost (0.0004999999999988347, which is 10748 units
\* in the last place under the f64 nearest 0.0005); two negative readings
\* (-31.602999999999998, one unit from -31.603); and a full window whose sum
\* depends on the order of the buffer (39.86233333333334 from 62.523, 7.357,
\* 49.707; the readings in the order they came would give 39.86233333333333).
C7_Examples ==
    LET src == conf.src
        n == conf.operations[1].n
        known(run, t, mean) == (src = run /\ Len(outs) >= t) => outs[t] = Some(mean)
    IN  /\ n = 3 =>
              \A t \in 1..4 :
                  known(<<Some(Num(10)), Some(Num(20)), Some(Num(30)), Some(Num(40))>>,
                        t, Num(<<10, 15, 20, 30>>[t]))
        /\ n >= 2 =>
              /\ known(<<Some(Dec(55849)), Some(Dec(-55848))>>, 2,
                       [n |-> 1, d |-> 2000, ulp |-> -10748])
              /\ known(<<Some(Dec(-55849)), Some(Dec(-7357))>>, 2,
                       [n |-> -31603, d |-> 1000, ulp |-> 1])
        /\ n = 3 =>
              /\ known(<<Some(Dec(55849)), Some(Dec(-7357)), Some(Dec(-49707))>>, 3,
                       [n |-> -81, d |-> 200, ulp |-> -20])
              /\ known(<<Some(Dec(55849)), Some(Dec(7357)), Some(Dec(49707)),
                         Some(Dec(62523))>>, 4,
                       [n |-> 119587, d |-> 3000, ulp |-> 1])

\* C7: the t-th output of Average(n) is the arithmetic mean of the last
\* min(t, n) readings, computed in f64 over the ring buffer: once n readings
\* have been seen each new one takes the place of the oldest.  The output is
\* that f64 exactly, for readings of either sign, and it is the known mean
\* of the examples.
C7_AverageWindow ==
    OnlyStage("Average") =>
        /\ \A t \in 1..Len(outs) :
               IF t <= Len(conf.src)
               THEN outs[t] = Some(MeanOf(LastValues(conf.src, t, conf.operations[1].n)))
               ELSE outs[t] = None
        /\ C7_Examples

\* Average(3) fed [10, 20, 30, 40] has yielded [10, 15, 20, 30].
C7_Witness ==
    /\ conf.operations = <<AverageParameters(3)>>
    /\ conf.src = <<Some(Num(10)), Some(Num(20)), Some(Num(30)), Some(Num(40))>>
    /\ outs = <<Some(Num(10)), Some(Num(15)), Some(Num(20)), Some(Num(30))>>

\* offset <= out <= offset + 100, on u32 halves
WithinOffset(out, offset) ==
    /\ U32Le(offset, out)
    /\ out.hi - offset.hi <= 1
    /\ (out.hi - offset.hi) * Half + out.lo - offset.lo <= PidMax

\* C8: every value the PID stage outputs lies in [offset, offset + 100], for
\* every u32 offset and all controller terms.
C8_PIDRange ==
    OnlyStage("PID") =>
        \A j \in 1..Len(outs) :
            outs[j] # None => WithinOffset(outs[j][1], conf.operations[1].offset)

\* a <= b on the values, false with a NaN
RLe(a, b) ==
    /\ ~IsNaN(a)
    /\ ~IsNaN(b)
    /\ IF a.d = 0 /\ b.d = 0 THEN a.n <= b.n ELSE a.n * b.d <= b.n * a.d

\* C9: for min <= max every value Clip(min, max) outputs lies in [min, max].
C9_ClipRange ==
    (OnlyStage("Clip") /\ RLe(conf.operations[1].min, conf.operations[1].max)) =>
        \A j \in 1..Len(outs) :
            outs[j] # None =>
                /\ RLe(conf.operations[1].min, outs[j][1])
                /\ RLe(outs[j][1], conf.operations[1].max)

\* a value scaled by 1000 in f64 and truncated, as an integer
ScaledTrunc(x) == Trunc(FMul(x, Num(Milli)))

\* C10: AtLeast(threshold) outputs exactly 0 when the reading scaled by 1000
\* and truncated is below the scaled threshold, and the reading itself
\* otherwise.
C10_AtLeastPassThrough ==
    OnlyStage("AtLeast") =>
        \A j \in 1..Len(outs) :
            j <= Len(conf.src) =>
                outs[j] = (IF /\ IsFinite(conf.src[j][1])
                              /\ ScaledTrunc(conf.src[j][1]) < ScaledTrunc(conf.operations[1].val)
                           THEN Some(Num(0))
                           ELSE conf.src[j])

\* every reading equals the initial position of the oscillator
AtEquilibrium(src) == \A j \in 1..Len(src) : src[j] = Some(Num(OscInit))

\* C11: a DampenedOscillator whose every upstream value is its initial
\* position 100.0 outputs 100.0 on every tick and keeps velocity and
\* acceleration 0, for every mass, spring constant and dt.
C11_OscillatorEquilibrium ==
    (OnlyStage("DampenedOscillator") /\ AtEquilibrium(conf.src)) =>
        /\ \A j \in 1..Len(outs) :
               j <= Len(conf.src) => outs[j] = Some(Num(OscInit))
        /\ chain.st[1].vel = Num(0)
        /\ chain.st[1].acc = Num(0)

\* the stages of the chain, 1 reading from the sensor
Stages == 1..Len(chain.st)
\* next() calls made so far on the upstream of stage k
UpstreamCalls(k) == chain.calls[k]
\* one of the calls made on the sensor so far returned nothing
SensorGaveNothing ==
    \E j \in 1..chain.calls[1] : j > Len(conf.src) \/ conf.src[j] = None
\* the position of the first reading that is nothing
FirstNothing(src) ==
    CHOOSE j \in 1..(Len(src) + 1) :
        /\ j > Len(src) \/ src[j] = None
        /\ \A i \in 1..(j - 1) : src[i] # None

C12_State ==
    \* the first stage has seen its upstream end exactly when the sensor
    \* returned nothing, and that was the last call it made on the sensor
    /\ Stages # {} =>
           /\ chain.st[1].iterDone <=> SensorGaveNothing
           /\ chain.st[1].iterDone => chain.calls[1] = FirstNothing(conf.src)
    \* the pull in which a stage sees its upstream end returns nothing
    /\ (Stages # {} /\ chain.st[Len(chain.st)].iterDone /\ ~crashed) =>
           (outs # <<>> /\ outs[Len(outs)] = None)
    \* a stage has seen its upstream end when the one below it has, unless
    \* the pull panicked before it returned
    /\ ~crashed =>
           \A k \in Stages \ {1} : chain.st[k - 1].iterDone => chain.st[k].iterDone
C12_Step ==
    \A k \in Stages :
        chain.st[k].iterDone =>
            \* no further call on the upstream of stage k
            /\ chain'.calls[k] = UpstreamCalls(k)
            /\ chain'.st[k].iterDone
            \* every further pull of stage k returns nothing
            /\ (k = Len(chain.st) /\ ~crashed') =>
                   \A j \in (Len(outs) + 1)..Len(outs') : outs'[j] = None
            /\ (k < Len(chain.st) /\ chain'.calls[k + 1] # chain.calls[k + 1]) =>
                   chain'.st[k + 1].iterDone

\* C12: a stage whose pull on its upstream has returned nothing returns
\* nothing in that pull and in every later one, and never calls its upstream
\* again, also when the upstream (the sensor) has later readings.
C12_StagesFused == []C12_State /\ [][C12_Step]_vars

\* Clip after Identity on a sensor that returns nothing and then a reading:
\* three pulls returned nothing and the sensor was called once.
C12_Witness ==
    /\ conf.operations = <<IdentityParameters, ClipParameters(Num(30), Num(100))>>
    /\ conf.src = <<Some(Num(50)), None, Some(Num(20))>>
    /\ outs = <<Some(Num(50)), None, None, None>>
    /\ chain.calls = <<2, 2, 4>>

\* the stage at position k (1-based) was built from operations[k]
\* with the parameters of operations[k]
BuiltFrom(k) ==
    LET s == chain.st[k]
        fresh == Apply(conf.operations[k], s.monitor)
    IN  /\ s.kind = conf.operations[k].kind
        /\ CASE s.kind = "DampenedOscillator" ->
                    s.m = fresh.m /\ s.k = fresh.k /\ s.dt = fresh.dt /\ s.c = fresh.c
              [] s.kind \in {"Supersample", "Average"} -> s.n = fresh.n
              [] OTHER -> s = [fresh EXCEPT !.iterDone = s.iterDone]
\* the messages stage k has sent that are still on the channel
MessagesOf(k) == {j \in 1..Len(chain.chan) : chain.chan[j].id = k - 1}

\* C13: the chain has one stage per operation, in the order of the list;
\* a stage is only called by the stage built from the next operation (the
\* sensor by the first stage); in monitored mode the stage built from
\* operations[k] (0-based) holds the monitor id k and every message with id k
\* is one that a stage of the kind of operations[k] sends.
C13_AssemblyOrder ==
    /\ Len(chain.st) = Len(conf.operations)
    /\ \A k \in Stages :
           /\ BuiltFrom(k)
           /\ chain.st[k].monitor = (IF conf.monitored THEN Some(k - 1) ELSE None)
           /\ UpstreamCalls(k) > 0 => chain.calls[k + 1] > 0
    /\ \A j \in 1..Len(chain.chan) :
           /\ conf.monitored
           /\ chain.chan[j].id + 1 \in Stages
           /\ chain.chan[j].tag \in {">", conf.operations[chain.chan[j].id + 1].kind}

\* Supersample(2) after Subsample(1), monitored: both stages have sent.
C13_Witness ==
    /\ conf.operations = <<SubsampleParameters(1), SupersampleParameters(2)>>
    /\ conf.monitored
    /\ \E j \in MessagesOf(1) : chain.chan[j].tag = "Subsample"
    /\ \E j \in MessagesOf(2) : chain.chan[j].tag = "Supersample"
    /\ outs = <<Some(Num(50)), Some(Num(50))>>

\* the positions on the channel of the messages sent during the step
SentInStep == (Len(chain.chan) + 1)..Len(chain'.chan)
IsOutputOf(msg, k) == msg.id = k - 1 /\ msg.tag = ">"

C15_Step ==
    \A j \in SentInStep :
        IsOutputOf(chain'.chan[j], Len(chain.st)) => j = Len(chain'.chan)

\* C15: of the messages sent during one pull of the composed chain, the ">"
\* message of the last stage is the last one put on the channel.
C15_OutputMessageLast == [][C15_Step]_vars

\* Clip after AtLeast, monitored: one pull has put four messages on the
\* channel, the ">" of Clip last.
C15_Witness ==
    /\ conf.operations = <<AtLeastParameters(Num(30)), ClipParameters(Num(30), Num(100))>>
    /\ outs = <<Some(Num(50))>>
    /\ [j \in 1..Len(chain.chan) |-> <<chain.chan[j].id, chain.chan[j].tag>>]
           = <<<<0, "AtLeast">>, <<0, ">">>, <<1, "Clip">>, <<1, ">">>>>

\* the ">" messages the last stage has sent, oldest first
OutputsSent ==
    LET IsOut(msg) == IsOutputOf(msg, Len(chain.st))
    IN  SelectSeq(chain.chan, IsOut)
\* the pulls of the composed chain that returned a value
Returned ==
    LET IsSome(o) == o # None
    IN  SelectSeq(outs, IsSome)

\* C16: a stage sends one ">" message in each pull in which it returns a
\* value, carrying that value, and none in a pull in which it returns
\* nothing (stated for the last stage of the chain, whose returns are the
\* results of the pulls; Identity sends no messages).
C16_OutputMessageValue ==
    (/\ conf.monitored
     /\ Len(conf.operations) > 0
     /\ conf.operations[Len(conf.operations)].kind # "Identity"
     /\ ~crashed) =>
        [j \in 1..Len(OutputsSent) |-> Some(OutputsSent[j].val)] = Returned

\* an Average whose window size is not a positive count
InvalidSpecification(operations) ==
    \E k \in 1..Len(operations) :
        operations[k].kind = "Average" /\ operations[k].n < 1

\* C20: a chain specification with an invalid stage (an Average window that
\* is not a positive count) is rejected when the chain is built: no pull on
\* the composed chain ever faults because of it.
C20_InvalidRejectedAtConstruction ==
    InvalidSpecification(conf.operations) => ~crashed

-----------------------------------------------------------------------------
(* The process: sample_forever on the chain, and in socket mode the        *)
(* broadcast thread and the accept loop of bind_socket_and_listen.         *)

SchedVals == {Some(Dec(50004)), Some(Dec(50001)), Some(Dec(50010)), Some(Num(-3)),
              Some(Num(-5)), Some(Dec(1)), None}
MonVals == {Some(Num(50)), Some(Num(20))}

\* fand without --socket: pipeline.start(false)
PlainScenario(sc) ==
    \E operations \in {<<>>, <<IdentityParameters>>}, src \in SeqsUpTo(SchedVals, MaxTicks) :
        sc = Scenario(operations, src, NoCtrl, FALSE, FALSE)
\* fand --socket: bind_socket_and_listen, pipeline.start(true)
\* up to two readings of either value, or a longer run of one value
SocketReadings == SeqsUpTo(MonVals, 2) \cup SeqsUpTo({Some(Num(50))}, MonTicks)
SocketScenario(sc) ==
    \E operations \in {<<ClipParameters(Num(30), Num(100))>>}, src \in SocketReadings :
        sc = Scenario(operations, src, NoCtrl, TRUE, FALSE)
\* fand --socket with two stages, each with its own Monitor, and one reading
TwoStageSocketScenario(sc) ==
    sc = Scenario(<<AtLeastParameters(Num(30)), ClipParameters(Num(30), Num(100))>>,
                  <<Some(Num(50))>>, NoCtrl, TRUE, FALSE)
\* fand without --socket on two readings closer than a thousandth that lie
\* on either side of a half hundredth, and on 1.005, which as an f64 lies
\* below the half hundredth, followed by 1.0
CloseVals == {<<Some(Rat(10049, 10000)), Some(Rat(10051, 10000))>>,
              <<Some(Rat(1005, 1000)), Some(Num(1))>>,
              <<Some(Rat(1, 0)), Some(Rat(1, 0)), Some(Num(50))>>}
CloseScenario(sc) ==
    \E src \in CloseVals : sc = Scenario(<<>>, src, NoCtrl, FALSE, FALSE)
\* fand --socket with a Subsample stage, which reads the sensor twice in one
\* call of next(): alone, and behind a Clip that sends between the reads
SubsampleSocketScenario(sc) ==
    \/ sc = Scenario(<<SubsampleParameters(1)>>, <<Some(Num(50)), Some(Num(20))>>,
                     NoCtrl, TRUE, FALSE)
    \/ sc = Scenario(<<ClipParameters(Num(30), Num(100)), SubsampleParameters(1)>>,
                     <<Some(Num(50))>>, NoCtrl, TRUE, FALSE)
\* fand --socket on a low reading before a higher one: the fan is stopped
\* and started again, behind a Clip and with no stage at all
BoostSocketScenario(sc) ==
    \/ sc = Scenario(<<ClipParameters(Num(0), Num(100))>>,
                     <<Some(Num(5)), Some(Num(50))>>, NoCtrl, TRUE, FALSE)
    \/ sc = Scenario(<<>>, <<Some(Num(50)), Some(Num(5)), Some(Num(50))>>,
                     NoCtrl, TRUE, FALSE)
\* the chain main builds when no configuration file is named
DefaultOperations ==
    <<AverageParameters(DefaultWindow),
      PIDParameters(U32Of(DefaultOffset)),
      ClipParameters(Num(30), Num(100)),
      SupersampleParameters(DefaultRepeat),
      DampenedOscillatorParameters(Rat(1, 2), Num(2), Rat(1, 4), Num(0)),
      DampenedOscillatorParameters(Num(1), Num(1), Rat(1, 4), Num(0)),
      ClipParameters(Num(30), Num(100)),
      SubsampleParameters(DefaultSkip)>>
\* temperatures far above the setpoint of 35, and what the controller
\* (limits 100, 10, 30) then returns: the PID stage is driven to its maximum
\* and the oscillators rest at 100
HotVals == {Some(Num(80)), Some(Num(90))}
HotControl == [p |-> Num(-90), i |-> Num(-10), d |-> Num(0)]
\* fand without --socket and without --config, until the sensor cannot be read
DefaultScenario(sc) ==
    \E src \in SeqsUpTo(HotVals, DefaultSrc) :
        sc = Scenario(DefaultOperations, src, [j \in 1..Len(src) |-> HotControl],
                      FALSE, FALSE)
\* what the stages before the last Clip may hand to it: values below, inside
\* and above [30, 100], NaN and the infinities
WildVals == {Some(Num(-7)), Some(Dec(29999)), Some(Num(65)), Some(Dec(100001)),
             Some(NaN), Some(Rat(-1, 0)), Some(Rat(1, 0))}
\* the last two stages of the built-in chain on two ticks of such values,
\* the first four values of each tick being the ones Subsample discards
DefaultTailScenario(sc) ==
    \E d \in WildVals, v \in WildVals, w \in WildVals :
        sc = Scenario(SubSeq(DefaultOperations, 7, 8),
                      <<d, d, d, d, v, d, d, d, d, w>>, NoCtrl, FALSE, FALSE)
\* fand --socket with as many observers as the acceptor takes, on one reading
ObserversScenario(sc) ==
    sc = [Scenario(<<ClipParameters(Num(30), Num(100))>>, <<Some(Num(50))>>,
                   NoCtrl, TRUE, FALSE) EXCEPT !.conns = MaxConns]
\* fand without --socket on an External output: a low reading between two
\* higher ones, and a reading with decimals
ExternalOutputScenario(sc) ==
    \E src \in {<<Some(Num(50)), Some(Num(5)), Some(Num(50))>>, <<Some(Dec(50004))>>} :
        sc = [Scenario(<<>>, src, NoCtrl, FALSE, FALSE) EXCEPT !.output = "External"]
ProcessScenario(sc) ==
    \/ DefaultScenario(sc)
    \/ DefaultTailScenario(sc)
    \/ PlainScenario(sc)
    \/ SocketScenario(sc)
    \/ TwoStageSocketScenario(sc)
    \/ CloseScenario(sc)
    \/ SubsampleSocketScenario(sc)
    \/ BoostSocketScenario(sc)
    \/ ExternalInputScenario(sc)
    \/ ObserversScenario(sc)
    \/ ExternalOutputScenario(sc)

\* main has read its configuration and called pipeline.start (in socket mode
\* from bind_socket_and_listen, the socket bound): the chain is built, the
\* output is not, and no thread has been spawned.
Init ==
    /\ ProcessScenario(conf)
    /\ chain = Start(conf)
    /\ outs = <<>>
    /\ crashed = FALSE
    /\ exited = FALSE
    /\ sched = "Starting"
    /\ last = Num(0)
    /\ sink = <<>>
    /\ hub = NoHub
    /\ clients = <<>>
    /\ lock = "none"
    /\ wrote = <<>>
    /\ joined = <<>>
    /\ nconn = 0

\* PWM::push: val < 10.0, START_POWER and the divisor of val / 100_f64
LowPower == 10
START_POWER == 100
Percent == 100

\* (x * 100.).round() as u64
Cents(x) ==
    LET v == Q(x)
    IN  IF IsNaN(v) \/ v.n <= 0 THEN U64(0)
        ELSE IF v.d = 0 THEN U64Max
        ELSE U64(Round(FMul(v, Num(Centi))))

\* Whether sample_forever pushes `next`.
Differs(prev, next) == Cents(prev) # Cents(next)

\* a loop that skips an empty pull instead of ending
AfterPullContinue(val) == "Running"
\* match source.next() { Some(val) => val, None => break }
AfterPull(val) == IF val = None THEN "Stopped" ELSE "Running"


\* PWM::push(val) with the flag last_zero: the duty cycles it sets, in
\* order, and the flag afterwards.  After a value below LowPower the next
\* value that is not below it starts the fan at START_POWER for 500 ms.
PWMPush(last_zero, val) ==
    LET low == RLt(Q(val), Num(LowPower))
        duty == FDiv(Q(val), Num(Percent))
        start == FDiv(Num(START_POWER), Num(Percent))
    IN  [duty |-> IF ~low /\ last_zero THEN <<start, duty>> ELSE <<duty>>,
         last_zero |-> low]
\* format!("{}", val), the argument External::push hands to its command:
\* the shortest decimal that reads back as val.  For a val of at most three
\* decimals that is its sign, whole part and thousandths; any other f64 is
\* named by the digits that tell it from its neighbours.
Display(val) ==
    IF IsFinite(val) /\ Ulp(val) = 0 /\ Milli % val.d = 0
    THEN [neg |-> val.n < 0, whole |-> Abs(val.n) \div val.d,
          thousandths |-> (Abs(val.n) % val.d) * (Milli \div val.d)]
    ELSE [f64 |-> val]
\* External::push(val): the command is run once, with the value as its only
\* argument
ExternalPush(val) == <<Display(Q(val))>>
\* the flag of the PWM output (false in PWM::new)
LastZero == IF sink = <<>> THEN FALSE ELSE sink[Len(sink)].last_zero
\* the value the loop holds between source.next() and output.push()
Pulled == outs[Len(outs)][1]
\* what is left of the call of source.next() in progress
Pending == chain.log

\* The process runs.  It exits when its main thread ends: in main after
\* pipeline.start(false) or bind_socket_and_listen has returned, or by a
\* panic.  Without --socket the main thread is the one of sample_forever.
Alive == ~exited

\* Pipeline::start builds the output and enters the loop: in socket mode in
\* a thread of its own, and bind_socket_and_listen goes on to spawn the
\* broadcast thread and to accept connections.
LoopStarts ==
    /\ Alive
    /\ sched = "Starting"
    /\ sched' = "Running"
    /\ hub' = IF conf.monitored THEN [NoHub EXCEPT !.pc = "recv"] ELSE NoHub
    /\ UNCHANGED <<conf, chain, outs, crashed, exited, last, sink, clients, lock, wrote,
                   joined, nconn>>

\* PWM::new() returns Err (the PWM channel cannot be opened) and the unwrap
\* in Pipeline::start panics, in the main thread: the process exits before
\* the first reading, and in socket mode before any connection is accepted.
OutputUnwrapPanics ==
    /\ Alive
    /\ sched = "Starting"
    /\ conf.output = "PWM"
    /\ exited' = TRUE
    /\ UNCHANGED <<conf, chain, outs, crashed, sched, last, sink, hub, clients, lock, wrote,
                   joined, nconn>>

\* The thread of sample_forever is in its loop: at the top of an iteration
\* ("Running"), inside source.next() ("InNext") or inside output.push()
\* ("InPush").
InLoop == sched \in {"Running", "InNext", "InPush"}

\* source.next() is called.  The stages are owned by this thread, so what
\* the call does to them is taken at once; its reads of the sensor and its
\* sends on the channel, which other threads and the outside can tell
\* apart, are taken one at a time, in the order the call makes them, and
\* then its return or its panic.
NextCalled ==
    /\ Alive
    /\ sched = "Running"
    /\ \E r \in {ChainNext(chain)} :
           chain' = [r.c EXCEPT
                        !.src = chain.src, !.chan = chain.chan, !.sent = chain.sent,
                        !.log = Append(@, IF r.panic THEN [ev |-> "panic"]
                                          ELSE [ev |-> "return", val |-> r.val])]
    /\ sched' = "InNext"
    /\ UNCHANGED <<conf, outs, crashed, exited, last, sink, hub, clients, lock, wrote, joined, nconn>>

\* Input::next reads the sensor.
SensorRead ==
    /\ Alive
    /\ sched = "InNext"
    /\ Head(Pending).ev = "read"
    /\ chain' = [chain EXCEPT !.src = IF @ = <<>> THEN @ ELSE Tail(@),
                              !.log = Tail(@)]
    /\ UNCHANGED <<conf, outs, crashed, exited, sched, last, sink, hub, clients, lock, wrote,
                   joined, nconn>>

\* Monitor::send puts a message on the channel.
MonitorSent ==
    /\ Alive
    /\ sched = "InNext"
    /\ Head(Pending).ev = "send"
    /\ chain' = [chain EXCEPT !.chan = @ \o Head(Pending).put,
                              !.sent = @ + 1,
                              !.log = Tail(@)]
    /\ UNCHANGED <<conf, outs, crashed, exited, sched, last, sink, hub, clients, lock, wrote,
                   joined, nconn>>

\* source.next() returns: None breaks the loop; a value that differs from
\* the last one is pushed; any other value is kept as last and the
\* iteration ends.  When the loop ends in the main thread, main goes on to
\* its unreachable!() and the process exits.
NextReturns ==
    /\ Alive
    /\ sched = "InNext"
    /\ Head(Pending).ev = "return"
    /\ LET val == Head(Pending).val
       IN  /\ outs' = Append(outs, val)
           /\ IF val = None
              THEN /\ sched' = AfterPull(val)
                   /\ UNCHANGED last
              ELSE IF Differs(last, val[1])
              THEN /\ sched' = "InPush"
                   /\ UNCHANGED last
              ELSE /\ sched' = AfterPull(val)
                   /\ last' = val[1]
    /\ exited' = (sched' = "Stopped" /\ ~conf.monitored)
    /\ chain' = [chain EXCEPT !.log = Tail(@)]
    /\ UNCHANGED <<conf, crashed, sink, hub, clients, lock, wrote, joined, nconn>>

\* source.next() panics (a stage, or the expect of an External input): the
\* thread running sample_forever ends, and the process with it when that is
\* the main thread.
NextPanics ==
    /\ Alive
    /\ sched = "InNext"
    /\ Head(Pending).ev = "panic"
    /\ sched' = "Panicked"
    /\ exited' = ~conf.monitored
    /\ chain' = [chain EXCEPT !.log = Tail(@)]
    /\ UNCHANGED <<conf, outs, crashed, last, sink, hub, clients, lock, wrote, joined, nconn>>

\* output.push(next) is under way: its first set_duty_cycle is made and it
\* has not returned.  That is the 500 ms at START_POWER.
Boosting == sched = "InPush" /\ sink # <<>> /\ sink[Len(sink)].tick = Len(outs)

\* one entry of sink
Push(ok, duty, last_zero, args) ==
    [tick |-> Len(outs), val |-> Pulled, ok |-> ok, duty |-> duty,
     last_zero |-> last_zero, args |-> args]

\* output.push(next) goes on.  External: the command has run, push returns,
\* last = next and the iteration ends (the sleep of sample_interval is not a
\* state of its own).  PWM: a set_duty_cycle returns Ok; after the one at
\* START_POWER the thread sleeps, clears the flag and makes the second; after
\* the one of the value push returns.  sink holds one entry per push: the
\* duty cycles set so far and the flag, or the arguments of the command.
PushProceeds ==
    /\ Alive
    /\ sched = "InPush"
    /\ IF conf.output = "External"
       THEN /\ sink' = Append(sink, Push(TRUE, <<>>, FALSE, ExternalPush(Pulled)))
            /\ last' = Pulled
            /\ sched' = "Running"
       ELSE \E pwm \in {PWMPush(LastZero, Pulled)} :
               IF Len(pwm.duty) = 2 /\ ~Boosting
               THEN /\ sink' = Append(sink, Push(TRUE, <<pwm.duty[1]>>, LastZero, <<>>))
                    /\ UNCHANGED <<last, sched>>
               ELSE /\ sink' = IF Boosting
                               THEN [sink EXCEPT ![Len(sink)].duty = pwm.duty,
                                                 ![Len(sink)].last_zero = pwm.last_zero]
                               ELSE Append(sink, Push(TRUE, pwm.duty, pwm.last_zero, <<>>))
                    /\ last' = Pulled
                    /\ sched' = "Running"
    /\ UNCHANGED <<conf, chain, outs, crashed, exited, hub, clients, lock, wrote, joined, nconn>>

\* output.push(next) panics (External: the command cannot be run and the
\* expect panics; PWM: the set_duty_cycle it makes next fails and the unwrap
\* panics): the thread
\* running sample_forever ends, and the process with it when that is the
\* main thread.  The flag is the one of the moment: set by a low value
\* before its set_duty_cycle, cleared before the one that follows the start.
PushPanics ==
    /\ Alive
    /\ sched = "InPush"
    /\ IF conf.output = "External"
       THEN sink' = Append(sink, Push(FALSE, <<>>, FALSE, <<>>))
       ELSE \E pwm \in {PWMPush(LastZero, Pulled)} :
               sink' = IF Boosting
                       THEN [sink EXCEPT ![Len(sink)].ok = FALSE,
                                         ![Len(sink)].last_zero = pwm.last_zero]
                       ELSE Append(sink, Push(FALSE, <<>>,
                                              IF Len(pwm.duty) = 2
                                              THEN LastZero ELSE pwm.last_zero, <<>>))
    /\ sched' = "Panicked"
    /\ exited' = ~conf.monitored
    /\ UNCHANGED <<conf, chain, outs, crashed, last, hub, clients, lock, wrote, joined, nconn>>

\* The Senders live in the Monitors of the stages, which sample_forever owns:
\* the last one is dropped when its thread ends (the tx of Pipeline::start is
\* dropped when start returns).
SendersAlive == InLoop /\ Len(chain.st) > 0

\* a receiver that leaves the message it hands out on the channel
HubRecvKeeps ==
    /\ Alive
    /\ hub.pc = "recv"
    /\ chain.chan # <<>>
    /\ hub' = [hub EXCEPT !.pc = "lock", !.val = Some(Head(chain.chan))]
    /\ UNCHANGED <<conf, chain, outs, crashed, exited, sched, last, sink, clients, lock, wrote, joined, nconn>>
\* a receiver that hands out the newest pending message first
HubRecvNewest ==
    /\ Alive
    /\ hub.pc = "recv"
    /\ chain.chan # <<>>
    /\ hub' = [hub EXCEPT !.pc = "lock", !.val = Some(chain.chan[Len(chain.chan)])]
    /\ chain' = [chain EXCEPT !.chan = SubSeq(@, 1, Len(@) - 1)]
    /\ UNCHANGED <<conf, outs, crashed, exited, sched, last, sink, clients, lock, wrote, joined, nconn>>
\* rx.recv() returns Ok(val)
HubRecv ==
    /\ Alive
    /\ hub.pc = "recv"
    /\ chain.chan # <<>>
    /\ hub' = [hub EXCEPT !.pc = "lock", !.val = Some(Head(chain.chan))]
    /\ chain' = [chain EXCEPT !.chan = Tail(@)]
    /\ UNCHANGED <<conf, outs, crashed, exited, sched, last, sink, clients, lock, wrote, joined, nconn>>

\* rx.recv() returns Err: the channel is empty and every Sender is dropped.
\* The thread ends and drops the Receiver.
HubExit ==
    /\ Alive
    /\ hub.pc = "recv"
    /\ chain.chan = <<>>
    /\ ~SendersAlive
    /\ hub' = [hub EXCEPT !.pc = "exit"]
    /\ chain' = [chain EXCEPT !.rx = FALSE]
    /\ UNCHANGED <<conf, outs, crashed, exited, sched, last, sink, clients, lock, wrote, joined, nconn>>

\* a pass that iterates over the clients from the second one on
HubLockSkipsFirst ==
    /\ Alive
    /\ hub.pc = "lock"
    /\ lock = "none"
    /\ lock' = "hub"
    /\ hub' = [hub EXCEPT !.pc = "write", !.i = Min(1, Len(clients)), !.to_del = <<>>]
    /\ UNCHANGED <<conf, chain, outs, crashed, exited, sched, last, sink, clients, wrote, joined, nconn>>
\* clients_copy.lock().unwrap(); to_del = Vec::new()
HubLock ==
    /\ Alive
    /\ hub.pc = "lock"
    /\ lock = "none"
    /\ lock' = "hub"
    /\ hub' = [hub EXCEPT !.pc = "write", !.i = 0, !.to_del = <<>>]
    /\ UNCHANGED <<conf, chain, outs, crashed, exited, sched, last, sink, clients, wrote, joined, nconn>>

WriteTo(conn, ok) ==
    [wrote EXCEPT ![conn] = Append(@, [sn |-> hub.val[1].sn, id |-> hub.val[1].id, ok |-> ok])]

\* client.write_all(val.as_bytes()) returns Ok
HubWriteOk ==
    /\ Alive
    /\ hub.pc = "write"
    /\ hub.i < Len(clients)
    /\ wrote' = WriteTo(clients[hub.i + 1], TRUE)
    /\ hub' = [hub EXCEPT !.i = @ + 1]
    /\ UNCHANGED <<conf, chain, outs, crashed, exited, sched, last, sink, clients, lock, joined, nconn>>

\* client.write_all(val.as_bytes()) returns Err: to_del.push(iclient)
HubWriteErr ==
    /\ Alive
    /\ hub.pc = "write"
    /\ hub.i < Len(clients)
    /\ wrote' = WriteTo(clients[hub.i + 1], FALSE)
    /\ hub' = [hub EXCEPT !.i = @ + 1, !.to_del = Append(@, hub.i)]
    /\ UNCHANGED <<conf, chain, outs, crashed, exited, sched, last, sink, clients, lock, joined, nconn>>

InSeq(x, q) == \E j \in 1..Len(q) : q[j] = x

\* a removal by swap_remove, from the last failed client to the first: the
\* last client of the set takes the place of each failed one
RetainSwapping(current_clients, to_del) ==
    LET swap_remove(q, i) ==
            IF i + 1 = Len(q) THEN SubSeq(q, 1, Len(q) - 1)
            ELSE [SubSeq(q, 1, Len(q) - 1) EXCEPT ![i + 1] = q[Len(q)]]
        F[j \in 0..Len(to_del)] ==
            IF j = 0 THEN current_clients
            ELSE swap_remove(F[j - 1], to_del[Len(to_del) - j + 1])
    IN  F[Len(to_del)]
\* current_clients.retain(|_| (!to_del.contains(&i), i += 1).0) with i from 0
Retain(current_clients, to_del) ==
    LET keep(j) == ~InSeq(j - 1, to_del)
        F[j \in 0..Len(current_clients)] ==
            IF j = 0 THEN <<>>
            ELSE IF keep(j) THEN Append(F[j - 1], current_clients[j]) ELSE F[j - 1]
    IN  F[Len(current_clients)]

\* the end of one iteration of the while loop: the failed clients are
\* removed and the MutexGuard is dropped
HubPrune ==
    /\ Alive
    /\ hub.pc = "write"
    /\ hub.i = Len(clients)
    /\ clients' = IF hub.to_del # <<>> THEN Retain(clients, hub.to_del) ELSE clients
    /\ lock' = "none"
    /\ hub' = [hub EXCEPT !.pc = "recv"]
    /\ UNCHANGED <<conf, chain, outs, crashed, exited, sched, last, sink, wrote, joined, nconn>>

\* The number of broadcast passes begun: messages are received in the order
\* of their sn and each gets one pass.
PassesBegun ==
    IF hub.val = None THEN 0
    ELSE IF hub.pc = "lock" THEN hub.val[1].sn - 1 ELSE hub.val[1].sn

\* an acceptor that pushes without taking the mutex
AcceptUnlocked ==
    /\ Alive
    /\ conf.monitored
    /\ sched # "Starting"
    /\ nconn < conf.conns
    /\ nconn' = nconn + 1
    /\ clients' = Append(clients, nconn + 1)
    /\ wrote' = Append(wrote, <<>>)
    /\ joined' = Append(joined, PassesBegun + 1)
    /\ UNCHANGED <<conf, chain, outs, crashed, exited, sched, last, sink, hub, lock>>
\* listener.incoming() yields Ok(stream): clients.lock().unwrap().push(stream)
Accept ==
    /\ Alive
    /\ conf.monitored
    /\ sched # "Starting"
    /\ nconn < conf.conns
    /\ lock = "none"
    /\ nconn' = nconn + 1
    /\ clients' = Append(clients, nconn + 1)
    /\ wrote' = Append(wrote, <<>>)
    /\ joined' = Append(joined, PassesBegun + 1)
    /\ UNCHANGED <<conf, chain, outs, crashed, exited, sched, last, sink, hub, lock>>

\* listener.incoming() yields Err: the loop breaks, bind_socket_and_listen
\* returns, main goes on to its unreachable!() and the process exits, with
\* the threads of sample_forever and of the broadcast.
AcceptFails ==
    /\ Alive
    /\ conf.monitored
    /\ sched # "Starting"
    /\ exited' = TRUE
    /\ UNCHANGED <<conf, chain, outs, crashed, sched, last, sink, hub, clients, lock, wrote,
                   joined, nconn>>

Next ==
    \/ LoopStarts
    \/ OutputUnwrapPanics
    \/ NextCalled
    \/ SensorRead
    \/ MonitorSent
    \/ NextReturns
    \/ NextPanics
    \/ PushProceeds
    \/ PushPanics
    \/ HubRecv
    \/ HubExit
    \/ HubLock
    \/ HubWriteOk
    \/ HubWriteErr
    \/ HubPrune
    \/ Accept
    \/ AcceptFails

Spec == Init /\ [][Next]_vars

\* One step of the broadcast thread.
HubStep == HubRecv \/ HubExit \/ HubLock \/ HubWriteOk \/ HubWriteErr \/ HubPrune

\* The socket-mode process with a broadcast thread that is scheduled
\* whenever it can take a step and whose write_all calls return; nothing is
\* assumed about the control loop nor the acceptor.
InitFair ==
    /\ Init
    /\ conf.monitored
    /\ SocketScenario(conf) \/ TwoStageSocketScenario(conf) \/ ExternalInputScenario(conf)
    /\ Len(conf.src) <= FairTicks
SpecFair == InitFair /\ [][Next]_vars /\ WF_vars(HubStep)

-----------------------------------------------------------------------------
(* Properties of the control loop *)

\* next() calls made on the composed chain
ChainCalls == chain.calls[Len(chain.st) + 1]
Pushed(t) == \E j \in 1..Len(sink) : sink[j].tick = t
PushedBefore(t) == \E j \in 1..Len(sink) : sink[j].tick < t
\* the value of the latest push before tick t
PrevPushed(t) ==
    LET j == CHOOSE m \in 1..Len(sink) :
                 /\ sink[m].tick < t
                 /\ \A o \in 1..Len(sink) : sink[o].tick < t => o <= m
    IN  sink[j].val
\* a value rounded to two decimal digits, in hundredths: (x * 100.).round()
\* without the cast, which is odd in x
Round2(x) ==
    LET v == Q(x)
    IN  IF ~IsFinite(v) THEN v
        ELSE IF v.n < 0 THEN Num(-(Cents(RNeg(v)).i))
        ELSE Num(Cents(v).i)
\* the iteration that pulled the t-th value has ended or is past its push
Settled(t) == t < Len(outs) \/ sched # "InPush"

\* C1: on every tick after a value has been forwarded, the pulled value is
\* forwarded if and only if its two-decimal rounding differs from that of the
\* previously forwarded value, negative values included.
C1_ForwardIffRoundingDiffers ==
    \A t \in 1..Len(outs) :
        (outs[t] # None /\ PushedBefore(t) /\ Settled(t)) =>
            (Pushed(t) <=> Round2(outs[t][1]) # Round2(PrevPushed(t)))

\* C2: the first value pulled from the chain is always forwarded.
C2_FirstValueForwarded ==
    (outs # <<>> /\ outs[1] # None /\ Settled(1)) => Pushed(1)

PushPanicked == sink # <<>> /\ ~sink[Len(sink)].ok

C3_State ==
    /\ ChainCalls = Len(outs) + (IF sched = "InNext" \/ (sched = "Panicked" /\ ~PushPanicked)
                                 THEN 1 ELSE 0)
    /\ \A t \in 1..(Len(outs) - 1) : outs[t] # None
    /\ sched = "Stopped" <=> (outs # <<>> /\ outs[Len(outs)] = None)
C3_Terminal ==
    sched = "Stopped" =>
        /\ sched' = "Stopped"
        /\ chain'.calls = chain.calls
        /\ chain'.src = chain.src
        /\ outs' = outs
        /\ sink' = sink

\* C3: each iteration of the loop makes exactly one next() call on the chain;
\* the loop is Stopped exactly when the latest call returned None, which
\* only the last call ever does; once Stopped it stays Stopped and makes no
\* further next() call anywhere in the chain and no further push.
C3_StopsAtFirstNone == []C3_State /\ [][C3_Terminal]_vars

\* Stopped at an empty reading although the sensor has a later reading.
C3_Witness ==
    /\ sched = "Stopped"
    /\ conf.src = <<Some(Dec(50004)), None, Some(Dec(50010))>>
    /\ chain.src = <<Some(Dec(50010))>>
    /\ Len(sink) = 1

-----------------------------------------------------------------------------
(* Properties of the broadcast *)

Conns == 1..nconn
Registered(c) == InSeq(c, clients)
WritesOf(c, sn) == {j \in 1..Len(wrote[c]) : wrote[c][j].sn = sn}

C4_State ==
    \A c \in Conns :
        \* the writes on c are those of consecutive messages from the first
        \* pass after its registration on, none twice and none skipped
        /\ \A j \in 1..Len(wrote[c]) : wrote[c][j].sn = joined[c] + j - 1
        \* nothing is written to c after a write on it failed
        /\ \A j \in 1..(Len(wrote[c]) - 1) : wrote[c][j].ok
        \* c leaves the set only through a failed write
        /\ ~Registered(c) => (wrote[c] # <<>> /\ ~wrote[c][Len(wrote[c])].ok)
        \* between passes every registered connection has been written every
        \* message since its registration, successfully
        /\ (Registered(c) /\ hub.pc \in {"recv", "lock", "exit"}) =>
               /\ Len(wrote[c]) = PassesBegun + 1 - joined[c]
               /\ \A j \in 1..Len(wrote[c]) : wrote[c][j].ok
C4_Pass ==
    (hub.pc = "write" /\ hub'.pc = "recv") =>
        LET sn == hub.val[1].sn
            Ok(c) == wrote[c][Len(wrote[c])].ok
        IN  /\ \A j \in 1..Len(clients) : Cardinality(WritesOf(clients[j], sn)) = 1
            /\ clients' = SelectSeq(clients, Ok)
            /\ wrote' = wrote

\* C4: a broadcast pass writes the message exactly once to each connection
\* of the set; it leaves the set without exactly the connections whose write
\* failed, the others in their order; a removed connection is never written
\* again and a connection that has not failed is written every later message.
C4_BroadcastPass == []C4_State /\ [][C4_Pass]_vars

\* Of three connections the second failed on the first message and was
\* removed; the first and the third are left, in that order, and were
\* written the first and the second message.
C4_Witness ==
    /\ nconn = 3
    /\ clients = <<1, 3>>
    /\ hub.pc = "recv"
    /\ wrote[2] = <<[sn |-> 1, id |-> 0, ok |-> FALSE]>>
    /\ wrote[1] = <<[sn |-> 1, id |-> 0, ok |-> TRUE], [sn |-> 2, id |-> 0, ok |-> TRUE]>>
    /\ wrote[3] = wrote[1]

\* the messages of stage id written to connection c, as positions in wrote[c]
WritesOfStage(c, id) == {j \in 1..Len(wrote[c]) : wrote[c][j].id = id}
StageIds == 0..(Len(conf.operations) - 1)

\* C14: the messages of one stage are written to every connection in the
\* order in which the stage sent them (the order of their serial numbers),
\* none twice, and a message still on the channel or held by the Hub for its
\* pass was sent after every message of that stage already written.
C14_PerStageOrder ==
    \A c \in Conns, id \in StageIds :
        /\ \A i, j \in WritesOfStage(c, id) : i < j => wrote[c][i].sn < wrote[c][j].sn
        /\ \A i \in WritesOfStage(c, id), j \in 1..Len(chain.chan) :
               wrote[c][i].sn < chain.chan[j].sn
        /\ \A i \in WritesOfStage(c, id) :
               hub.val # None => wrote[c][i].sn <= hub.val[1].sn

\* A connection was written both messages of stage 0 and both of stage 1.
C14_Witness ==
    /\ Len(conf.operations) = 2
    /\ nconn >= 1
    /\ [j \in 1..Len(wrote[1]) |-> wrote[1][j].id] = <<0, 0, 1, 1>>
    /\ \A j \in 1..Len(wrote[1]) : wrote[1][j].ok

\* The number of broadcast passes finished.
PassesFinished ==
    IF hub.val = None THEN 0
    ELSE IF hub.pc \in {"lock", "write"} THEN hub.val[1].sn - 1 ELSE hub.val[1].sn
\* a write on c failed in the pass of an earlier message
FailedBefore(c, sn) ==
    \E j \in 1..Len(wrote[c]) : ~wrote[c][j].ok /\ wrote[c][j].sn < sn

\* C17: a connection pushed to the set before the pass of a message begins
\* (and not removed by an earlier failed write) has been written that
\* message when the pass has finished: it takes part from the first pass
\* that begins after its registration.
C17_NextPassIncludesNew ==
    \A c \in Conns, sn \in 1..PassesFinished :
        (joined[c] <= sn /\ ~FailedBefore(c, sn)) => WritesOf(c, sn) # {}

\* Connection 2 was registered after the pass of message 1 had begun and
\* before that of message 2: it was written message 2.
C17_Witness ==
    /\ nconn = 2
    /\ joined = <<1, 2>>
    /\ PassesFinished = 2
    /\ wrote[2] = <<[sn |-> 2, id |-> 0, ok |-> TRUE]>>
    /\ Len(wrote[1]) = 2

\* C18: a connection is never written a message whose broadcast pass began
\* (and so, the lock being held throughout, finished) before the connection
\* was pushed to the set: nothing is replayed.
C18_NoReplay ==
    \A c \in Conns :
        \A j \in 1..Len(wrote[c]) : wrote[c][j].sn >= joined[c]

\* The only connection was registered after two passes had finished; all
\* four messages were broadcast and it was written the last two only.
C18_Witness ==
    /\ nconn = 1
    /\ joined = <<3>>
    /\ PassesFinished = 4
    /\ [j \in 1..Len(wrote[1]) |-> wrote[1][j].sn] = <<3, 4>>

\* serial numbers of the messages a scenario can send: every stage sends at
\* most two messages per pull
SerialNumbers == 1..(2 * (FairTicks + 1))
\* message sn has had its broadcast pass and every connection that was in
\* the set when the pass began has been written it
Broadcast(sn) ==
    /\ PassesFinished >= sn
    /\ \A c \in Conns : (joined[c] <= sn /\ ~FailedBefore(c, sn)) => WritesOf(c, sn) # {}

\* C19: with a fairly scheduled broadcast thread whose writes return, every
\* message put on the channel eventually has had its broadcast pass, in which
\* it was written to every connection of the set; also when the control loop
\* has ended (exhausted or panicked) right after the send.
C19_EveryMessageBroadcast ==
    \A sn \in SerialNumbers : (chain.sent >= sn) ~> Broadcast(sn)

-----------------------------------------------------------------------------
(* Properties of failure and termination *)

\* the broadcast thread and the acceptor take no step
OthersHalt ==
    /\ hub' = hub
    /\ clients' = clients
    /\ wrote' = wrote
    /\ nconn' = nconn
    /\ chain'.chan = chain.chan
C21_Step ==
    PushPanicked =>
        /\ sched' = sched
        /\ chain'.calls = chain.calls
        /\ outs' = outs
        /\ sink' = sink
        /\ OthersHalt

\* C21: once a push has failed, monitored or not, the control loop makes no
\* further pull and no further push, and the process has terminated: the
\* broadcast thread and the acceptor take no further step.
C21_PushFailureIsFatal == [][C21_Step]_vars

-----------------------------------------------------------------------------
(* Properties of the lock and of the channel *)

\* the connections of the set
Members(q) == {q[j] : j \in 1..Len(q)}
\* the connections written the message of the pass
WrittenInPass == {c \in Conns : WritesOf(c, hub.val[1].sn) # {}}

C22_State ==
    \* the thread holds the mutex exactly during its pass
    /\ lock = "hub" <=> hub.pc = "write"
    \* and during a pass, whether a write is pending or not, the acceptor
    \* cannot push
    /\ hub.pc = "write" => ~ENABLED Accept
    \* the connections written so far in the pass are the first hub.i ones
    /\ hub.pc = "write" =>
           WrittenInPass = {clients[j] : j \in 1..hub.i}
C22_Step ==
    \* nothing is registered and the set does not change in the middle of a
    \* pass
    /\ (hub.pc = "write" /\ hub'.pc = "write") =>
           (clients' = clients /\ nconn' = nconn)
    \* what is pruned is what was written to
    /\ (hub.pc = "write" /\ hub'.pc = "recv") =>
           /\ WrittenInPass = Members(clients)
           /\ Members(clients') \subseteq Members(clients)
           /\ nconn' = nconn
    \* the acceptor takes and releases the mutex around each push
    /\ nconn' # nconn => (lock = "none" /\ lock' = "none" /\ hub' = hub)

\* C22: the mutex is held by the broadcast thread from before the first
\* write of a pass until its failed connections are pruned, and by the
\* acceptor for each push: no connection is registered during a pass (in
\* particular while a write is pending), and the set pruned at the end of a
\* pass is the set written to.
C22_LockDiscipline == []C22_State /\ [][C22_Step]_vars

\* A pass has begun and its write to the only connection is pending, while
\* the acceptor has a further connection to take.
C22_Witness ==
    /\ hub.pc = "write"
    /\ lock = "hub"
    /\ clients = <<1>>
    /\ hub.i = 0
    /\ nconn < conf.conns
    /\ conf.monitored

\* the messages the broadcast thread has taken from the channel
Received == IF hub.val = None THEN 0 ELSE hub.val[1].sn

\* every message sent and not yet received is pending
C23_State == Len(chain.chan) = chain.sent - Received

\* the pull of the next iteration returns with each of its messages appended,
\* and a send that is due can be made at once, whatever the broadcast
\* thread, the lock and the connections are doing
C23_Ready ==
    /\ sched = "Running" =>
        \E r \in {ChainNext(chain)} :
            /\ Len(r.c.chan) = Len(chain.chan) + (r.c.sent - chain.sent)
            /\ SubSeq(r.c.chan, 1, Len(chain.chan)) = chain.chan
    /\ (Alive /\ sched = "InNext" /\ Head(Pending).ev = "send") => ENABLED MonitorSent

C23_Step ==
    chain'.sent # chain.sent =>
        /\ chain'.sent = chain.sent + 1
        /\ Len(chain'.chan) = Len(chain.chan) + 1
        /\ SubSeq(chain'.chan, 1, Len(chain.chan)) = chain.chan
        /\ chain'.chan[Len(chain'.chan)].sn = chain'.sent
        /\ UNCHANGED <<hub, clients, lock, wrote>>

\* C23: Monitor::send never blocks and never drops: in every state of the
\* broadcast thread and of the connections the next iteration of the control
\* loop completes its sends, every send appends to the channel, and the
\* pending messages are all the messages sent and not yet received, however
\* many.
C23_SendNeverBlocks ==
    /\ [](C23_State /\ C23_Ready)
    /\ [][C23_Step]_vars

\* The control loop has run to its end while the broadcast thread received
\* nothing: every message sent is pending.
C23_Witness ==
    /\ hub.pc = "recv"
    /\ hub.val = None
    /\ sched = "Stopped"
    /\ chain.sent >= 2 * MonTicks
    /\ Len(chain.chan) = chain.sent

\* the magnitude of a negative term, 0 for the others
Magnitude(t) == IF RLt(t, Num(0)) THEN RNeg(t) ELSE Num(0)

\* offset + m without wrap-around, on halves (hi = Half above u32::MAX)
ExactSum(offset, m) ==
    LET lo == offset.lo + m
    IN  [hi |-> offset.hi + (lo \div Half), lo |-> lo % Half]

\* offset + min(100, trunc(P + I + D)) for the controller's j-th terms, the
\* sum P + I + D being the one of f64 (0.3 + 0.6 + 0.1 falls short of 1)
ExpectedOutput(j) ==
    LET t == conf.ctrl[j]
        total == FAdd(FAdd(Magnitude(t.p), Magnitude(t.i)), Magnitude(t.d))
    IN  ExactSum(conf.operations[1].offset, Min(PidMax, Trunc(total)))

\* C24: the j-th output of the PID stage equals offset + min(100, trunc(P +
\* I + D)), P, I and D being the magnitudes of the negative terms of the
\* j-th control output and 0 for the non-negative ones.
C24_PIDFormula ==
    OnlyStage("PID") =>
        \A j \in 1..Len(outs) :
            outs[j] # None => outs[j][1] = ExpectedOutput(j)

\* |a - b|
Distance(a, b) == LET diff == RSub(a, b) IN IF diff.n < 0 THEN RNeg(diff) ELSE diff

\* C25: a value pushed on a tick after the first differs from the value
\* sampled on the tick before by more than 0.001.
C25_PushedOnlyIfFar ==
    \A j \in 1..Len(sink) :
        sink[j].tick > 1 =>
            RLt(Rat(1, Milli), Distance(Q(sink[j].val), Q(outs[sink[j].tick - 1][1])))

\* the connections accepted after the last broadcast pass
AcceptedAfterLastPass == {j \in 1..nconn : joined[j] > chain.sent}

C26_State ==
    /\ sched = "Stopped" =>
        /\ ~SendersAlive
        /\ \A j \in AcceptedAfterLastPass : wrote[j] = <<>> /\ InSeq(j, clients)
    /\ hub.pc = "exit" =>
        /\ chain.chan = <<>>
        /\ Received = chain.sent
        /\ lock = "none"
        /\ nconn < conf.conns => ENABLED Accept

C26_Step ==
    /\ sched = "Stopped" => (sched' = "Stopped" /\ chain'.sent = chain.sent)
    /\ hub.pc = "exit" =>
        /\ hub' = hub
        /\ clients' = clients \/ clients' = Append(clients, nconn + 1)
        /\ \A j \in 1..nconn : wrote'[j] = wrote[j]
        /\ \A j \in (nconn + 1)..nconn' : wrote'[j] = <<>>

\* C26: once the control loop has ended on an exhausted chain no message is
\* sent any more, the broadcast thread receives and broadcasts every pending
\* message and then ends, and the acceptor goes on registering connections:
\* a connection registered after the thread has ended (or after its last
\* pass) is never written to and never removed from the set.
C26_AfterSchedulerStops ==
    /\ []C26_State
    /\ [][C26_Step]_vars
    /\ (conf.monitored /\ sched = "Stopped") ~> (hub.pc = "exit")

IsDefault == conf.operations = DefaultOperations
\* calls of next() that a step adds on stage k (0 is the sensor)
Pulls(k) == chain'.calls[k + 1] - chain.calls[k + 1]
\* the step is a call of next() on the chain by the control loop
Calls == sched = "Running" /\ sched' = "InNext"
\* what that call is about to return
Answer == chain'.log[Len(chain'.log)]
Yields == Answer.ev = "return" /\ Answer.val # None
Exhausted == Answer.ev = "return" /\ Answer.val = None
\* the number of the tick that call belongs to
TickNo == Len(outs) + 1
\* ticks 1, 21, 41, ...
FreshTick == (TickNo - 1) % ((DefaultRepeat) \div (DefaultSkip + 1)) = 0
UpstreamPulls == IF FreshTick THEN 1 ELSE 0

\* C27 as stated: every tick of the built-in chain pulls the Supersample
\* stage exactly 5 times and pulls the sensor, Average, PID and the first
\* Clip once on ticks 1, 21, 41, ... and not at all on the other ticks.
C27_Original ==
    [][(IsDefault /\ Calls) =>
        /\ Pulls(4) = DefaultSkip + 1
        /\ \A k \in 0..3 : Pulls(k) = UpstreamPulls]_vars

\* C27 amended: the same for every tick on which the chain yields a value;
\* the tick on which the sensor returns nothing pulls every stage up to
\* Supersample once and ends the loop.
C27_DefaultCadence ==
    [][/\ (IsDefault /\ Calls) =>
           /\ \A k \in 0..3 : Pulls(k) = UpstreamPulls
           /\ Yields \/ Exhausted
           /\ Yields => Pulls(4) = DefaultSkip + 1
           /\ Exhausted => (FreshTick /\ Pulls(4) = 1 /\ Pulls(8) = 1)
       /\ (IsDefault /\ outs' # outs /\ outs'[TickNo] = None) => sched' = "Stopped"]_vars

\* Tick 41 has found the sensor unreadable after two readings.
C27_Witness ==
    /\ IsDefault
    /\ Len(conf.src) = 2
    /\ Len(outs) = 2 * (DefaultRepeat \div (DefaultSkip + 1)) + 1
    /\ outs[Len(outs)] = None
    /\ chain.calls[1] = 3
    /\ chain.calls[5] = 2 * DefaultRepeat + 1
    /\ sched = "Stopped"

\* the chain ends with the last two stages of the built-in chain
EndsAsDefault ==
    /\ Len(conf.operations) >= 2
    /\ SubSeq(conf.operations, Len(conf.operations) - 1, Len(conf.operations))
         = SubSeq(DefaultOperations, 7, 8)
InRange(v) == IsFinite(Q(v)) /\ RLe(Num(30), Q(v)) /\ RLe(Q(v), Num(100))

\* C28: every value the control loop pulls from the built-in chain, and every
\* value it pushes, lies in [30, 100], whatever the stages before the last
\* Clip produce.
C28_DefaultRange ==
    EndsAsDefault =>
        /\ \A j \in 1..Len(outs) : outs[j] # None => InRange(outs[j][1])
        /\ \A j \in 1..Len(sink) : InRange(sink[j].val)

\* The last Clip was handed NaN and then 100.001: 30 and 100 were pulled and
\* pushed.
C28_Witness ==
    /\ EndsAsDefault
    /\ Len(conf.src) = 10
    /\ conf.src[5] = Some(NaN)
    /\ conf.src[10] = Some(Dec(100001))
    /\ outs = <<Some(Num(30)), Some(Num(100))>>
    /\ Len(sink) = 2

\* what n calls of next() on chain c return, up to a call that panics:
\* [outs, crashed, sent]
RECURSIVE RunOf(_, _)
RunOf(c, n) ==
    IF n = 0 THEN [outs |-> <<>>, crashed |-> FALSE, sent |-> c.sent]
    ELSE Bind(ChainNext(c), LAMBDA r :
             IF r.panic THEN [outs |-> <<>>, crashed |-> TRUE, sent |-> r.c.sent]
             ELSE [RunOf(r.c, n - 1) EXCEPT !.outs = <<r.val>> \o @])
\* the same pipeline started with monitored == true
MonitoredTwin == Start([conf EXCEPT !.monitored = TRUE])
PullsMade == Len(outs) + (IF crashed THEN 1 ELSE 0)

\* C29: started with monitored == false no stage holds a Monitor and no
\* message is ever sent, and the values pulled (and a panic, if any) are
\* those of the same pipeline started with monitored == true.
C29_UnmonitoredSameValues ==
    [](~conf.monitored =>
           /\ \A k \in 1..Len(chain.st) : chain.st[k].monitor = None
           /\ chain.chan = <<>>
           /\ chain.sent = 0
           /\ \E twin \in {RunOf(MonitoredTwin, PullsMade)} :
                  twin.outs = outs /\ twin.crashed = crashed)

\* An unmonitored chain of two stages has been pulled to its end; its
\* monitored twin sends messages on the same pulls.
C29_Witness ==
    /\ ~conf.monitored
    /\ Len(conf.operations) = 2
    /\ Len(outs) >= 3
    /\ outs[1] # None
    /\ outs[Len(outs)] = None
    /\ chain.sent = 0
    /\ RunOf(MonitoredTwin, Len(outs)).sent >= 4

\* the same pipeline with the target of its oscillator set to t
Retargeted(t) == Start([conf EXCEPT !.operations[1].target = t])

\* C30: the outputs of a DampenedOscillator stage do not depend on the
\* target of its specification: built with any other target and fed the
\* same readings it returns the same values.
C30_TargetIgnored ==
    OnlyStage("DampenedOscillator") =>
        \A t \in Targets :
            \E twin \in {RunOf(Retargeted(t), PullsMade)} :
                twin.outs = outs /\ twin.crashed = crashed

\* An oscillator configured with target 0 has moved from 100 towards its
\* input 50.
C30_Witness ==
    /\ OnlyStage("DampenedOscillator")
    /\ conf.operations[1].target = Num(0)
    /\ conf.operations[1].m = Num(1)
    /\ conf.operations[1].k = Num(1)
    /\ conf.operations[1].dt = Num(1)
    /\ conf.src = <<Some(Num(50)), Some(Num(50))>>
    /\ Len(outs) = 2
    /\ outs[1] = Some(Num(OscInit))
    /\ outs[2] # Some(Num(OscInit))
    /\ outs[2] # Some(Num(0))
=============================================================================
